---- MODULE Spec2Model ----
(***************************************************************************)
(* A model of the cache-first documentation resolver of AppleDocsDictionary *)
(* : the durable ApiCacheManager (one file per entry plus metadata.json),  *)
(* the DeepDocsScraper that resolves an identifier through the cache and   *)
(* the network, and the EnhancedContextProvider loop over seeds.           *)
(*                                                                         *)
(* Texts are strings read character by character, so that file-name        *)
(* sanitisation, case folding and URL handling are computed, not assumed.  *)
(***************************************************************************)
EXTENDS Integers, Sequences, FiniteSets, TLC

VARIABLES
    files,    \* the cache directory: file path -> parsed CachedApiData
    meta,     \* metadata.json: {} when there is no file, else {CacheMetadata}
    mem,      \* DeepDocsScraper.cache: url -> DeepDocResult
    now,      \* the value Date.now() returns
    contextCache, \* EnhancedContextProvider.contextCache: key -> context
    nLinks,   \* how many documentation links the "Foo" page exposes
    steps,    \* operations performed so far
    faultsLeft, \* failures the environment can still inject
    last,     \* the last operation: its arguments, its result, what it did
    getsSince, \* history: file path -> successful gets since the entry was put
    flows     \* the calls of scrapeApiInDepth under way: where each is suspended

vars == <<files, meta, mem, now, contextCache, nLinks, steps, faultsLeft, last, getsSince,
          flows>>

----------------------------------------------------------------------------
(* Bounds of the model.                                                    *)

\* resolutions in one behaviour
MaxSteps == 2
\* cache manager operations in one behaviour
MaxCacheOps == 4
\* the clock stops advancing here
MaxTime == 1
\* network requests and file accesses that fail in one behaviour
MaxFaults == 1
\* stand-in for MAX_CACHE_SIZE (5000 in the program), scaled to the model
MAX_CACHE_SIZE == 1

----------------------------------------------------------------------------
(* Texts are strings; their characters are read with SubSeq, so that       *)
(* file-name sanitisation, case folding and URL handling are computed.     *)

UpperChars == "ABCDEFGHIJKLMNOPQRSTUVWXYZ"
LowerChars == "abcdefghijklmnopqrstuvwxyz"
DigitChars == "0123456789"

Char(s, i) == SubSeq(s, i, i)

CharsOf(s) == {Char(s, i) : i \in 1..Len(s)}

Range(list) == {list[i] : i \in DOMAIN list}

Min(S) == CHOOSE x \in S : \A y \in S : x <= y

UpperSet == CharsOf(UpperChars)

\* the lower-case form of each upper-case letter
LowerOf == [c \in UpperSet |->
               Char(LowerChars, CHOOSE i \in 1..Len(UpperChars) : Char(UpperChars, i) = c)]

\* String.prototype.toLowerCase, one character
LowerChar(c) == IF c \in UpperSet THEN LowerOf[c] ELSE c

RECURSIVE toLowerCase(_)
toLowerCase(s) ==
    IF s = "" THEN ""
    ELSE toLowerCase(SubSeq(s, 1, Len(s) - 1)) \o LowerChar(Char(s, Len(s)))

\* s.startsWith(prefix)
startsWith(s, prefix) ==
    /\ Len(prefix) <= Len(s)
    /\ SubSeq(s, 1, Len(prefix)) = prefix

\* the positions at which sub occurs in s
Occurrences(s, sub) ==
    {i \in 1..(Len(s) - Len(sub) + 1) : SubSeq(s, i, i + Len(sub) - 1) = sub}

\* s.includes(sub)
includes(s, sub) == Occurrences(s, sub) # {}

\* [...new Set(list)]: the first occurrence of each value, in order
RECURSIVE Dedupe(_)
Dedupe(list) ==
    IF list = <<>> THEN <<>>
    ELSE LET init == Dedupe(SubSeq(list, 1, Len(list) - 1))
             x    == list[Len(list)]
         IN  IF x \in Range(init) THEN init ELSE Append(init, x)

\* list.slice(0, n)
Slice0(list, n) == SubSeq(list, 1, IF Len(list) < n THEN Len(list) ELSE n)

baseUrl == "https://developer.apple.com"

Null == "null"
EmptyMap == [x \in {} |-> Null]
Undefined == "undefined"

----------------------------------------------------------------------------
(* The documentation site: what the search endpoint and each page answer.  *)
(* The "Foo" page exposes nLinks distinct documentation links (one of them *)
(* twice) and a link that is no documentation link; "Bar" is found under   *)
(* the title "UIBar", carries no framework badge and links to itself, to a *)
(* related page and to a page that is gone; each related page links one    *)
(* page further on, and one of the related pages has no title.             *)

\* the most documentation links the "Foo" page exposes
MaxLinks == 12
\* calls of scrapeApiInDepth that are started while others are under way
MaxFlows == 3

DocSegment == "/documentation/"

\* i in two digits
Num(i) == Char(DigitChars, (i \div 10) + 1) \o Char(DigitChars, (i % 10) + 1)

RelPath(i) == "/documentation/uikit/r" \o Num(i)
RelUrl(i) == baseUrl \o RelPath(i)
P_foo == "/documentation/uikit/foo"
P_deep == "/documentation/uikit/deep"
P_video == "/videos/play/wwdc"
P_gone == "/documentation/uikit/gone"
U_foo == baseUrl \o P_foo
U_bar == baseUrl \o "/documentation/uikit/bar"
U_deep == baseUrl \o P_deep

Page(title, badge, description, hrefs) ==
    [title |-> title, badge |-> badge, description |-> description,
     apiType |-> "", availability |-> "", deprecated |-> FALSE,
     deprecationText |-> "", code |-> <<>>, props |-> <<>>, methods |-> <<>>,
     hrefs |-> hrefs]

FooHrefs(k) ==
    IF k = 0 THEN <<P_video>>
    ELSE <<RelPath(1)>> \o [i \in 1..k |-> RelPath(i)] \o <<P_video>>

\* the urls that answer with a page
SiteUrls == {U_foo, U_bar, U_deep} \cup {RelUrl(i) : i \in 1..MaxLinks}

\* the related page that has no h1
UntitledLink == 2

PageAt(url, k) ==
    IF url = U_foo THEN Page("Foo", "UIKit", "An overview", FooHrefs(k))
    ELSE IF url = U_bar THEN Page("UIBar", "", "", <<U_bar, RelPath(1), P_gone>>)
    ELSE IF url = U_deep THEN Page("Deep", "UIKit", "An overview", <<>>)
    ELSE LET i == CHOOSE j \in 1..MaxLinks : url = RelUrl(j)
         IN  Page(IF i = UntitledLink THEN "" ELSE "R" \o Num(i),
                  "UIKit", "An overview", <<P_deep>>)

\* the href of the first .search-result of the search page, if any
SearchFirstHref(apiName) ==
    IF apiName = "Foo" THEN {P_foo}
    ELSE IF apiName = "Bar" THEN {U_bar}
    ELSE {}

----------------------------------------------------------------------------
(* DeepDocsScraper: how a fetched page is read.                            *)

\* related links looked up in the cache on a primary hit
CachedRelatedLimit == 5
\* related links scrapeRelatedApis returns
DiscoveryLimit == 5
\* related links scrapeApiInDepth follows
RelatedLimit == 10
\* related links, properties and methods a parsed page keeps
ParseLimit == 10
\* code examples a parsed page keeps
ExampleLimit == 3

\* url.match(/\/documentation\/([^\/]+)/): the segment after /documentation/
extractFrameworkFromUrl(url) ==
    LET starts == {i \in Occurrences(url, DocSegment) :
                      /\ i + Len(DocSegment) <= Len(url)
                      /\ Char(url, i + Len(DocSegment)) # "/"}
    IN  IF starts = {} THEN "Unknown"
        ELSE LET from   == Min(starts) + Len(DocSegment)
                 stops  == {j \in from..Len(url) : Char(url, j) = "/"}
                 upto   == IF stops = {} THEN Len(url) ELSE Min(stops) - 1
             IN  SubSeq(url, from, upto)

FrameworkNames ==
    <<"Foundation", "UIKit", "SwiftUI", "Combine", "CoreData", "AVFoundation",
      "MapKit", "PencilKit", "ARKit", "CoreML">>

\* mapping[framework.toLowerCase()] || framework: every key of the table
\* is the lower-case form of its value
capitalizeFramework(framework) ==
    LET hits == {i \in DOMAIN FrameworkNames :
                    toLowerCase(FrameworkNames[i]) = toLowerCase(framework)}
    IN  IF hits = {} THEN framework ELSE FrameworkNames[Min(hits)]

\* the documentation links of a page, made absolute
DocLinks(hrefs) ==
    LET kept == {i \in DOMAIN hrefs : includes(hrefs[i], DocSegment)}
        RECURSIVE Collect(_)
        Collect(i) ==
            IF i = 0 THEN <<>>
            ELSE IF i \in kept
            THEN Append(Collect(i - 1),
                        IF startsWith(hrefs[i], "http") THEN hrefs[i]
                        ELSE baseUrl \o hrefs[i])
            ELSE Collect(i - 1)
    IN  Collect(Len(hrefs))

\* the DeepDocResult as it would be if the related links were kept as
\* the page lists them
ParsePage_allLinks(url, page) ==
    LET framework == IF page.badge # "" THEN page.badge
                     ELSE extractFrameworkFromUrl(url)
    IN  [title |-> IF page.title # "" THEN page.title ELSE "Unknown API",
         framework |-> capitalizeFramework(framework),
         type |-> IF page.apiType # "" THEN page.apiType ELSE "class",
         description |-> IF page.description # "" THEN page.description
                         ELSE "No description available",
         url |-> url,
         availability |-> IF page.availability # "" THEN page.availability
                          ELSE "iOS 13.0+",
         isDeprecated |-> page.deprecated,
         deprecationInfo |-> IF page.deprecated THEN page.deprecationText
                             ELSE Undefined,
         codeExamples |-> Slice0(page.code, ExampleLimit),
         relatedApis |-> DocLinks(page.hrefs),
         properties |-> Slice0(page.props, ParseLimit),
         methods |-> Slice0(page.methods, ParseLimit),
         fromCache |-> FALSE]

\* the DeepDocResult scrapeApiPage builds from a fetched page
ParsePage(url, page) ==
    LET framework == IF page.badge # "" THEN page.badge
                     ELSE extractFrameworkFromUrl(url)
    IN  [title |-> IF page.title # "" THEN page.title ELSE "Unknown API",
         framework |-> capitalizeFramework(framework),
         type |-> IF page.apiType # "" THEN page.apiType ELSE "class",
         description |-> IF page.description # "" THEN page.description
                         ELSE "No description available",
         url |-> url,
         availability |-> IF page.availability # "" THEN page.availability
                          ELSE "iOS 13.0+",
         isDeprecated |-> page.deprecated,
         deprecationInfo |-> IF page.deprecated THEN page.deprecationText
                             ELSE Undefined,
         codeExamples |-> Slice0(page.code, ExampleLimit),
         relatedApis |-> Slice0(Dedupe(DocLinks(page.hrefs)), ParseLimit),
         properties |-> Slice0(page.props, ParseLimit),
         methods |-> Slice0(page.methods, ParseLimit),
         fromCache |-> FALSE]

\* the numbers of links the "Foo" page is tried with: none, one, three,
\* as many as are discovered, one more, and the most
LinkCounts == {0, 1, 3, DiscoveryLimit, DiscoveryLimit + 1, MaxLinks}

\* what scrapeApiPage and scrapeRelatedApis read off each page of the site,
\* computed once for each number of links of the "Foo" page
ParsedPages ==
    [key \in SiteUrls \X LinkCounts |-> ParsePage(key[1], PageAt(key[1], key[2]))]
        @@ EmptyMap

DiscoveredLinks ==
    [key \in SiteUrls \X LinkCounts |->
        Slice0(Dedupe(DocLinks(PageAt(key[1], key[2]).hrefs)), DiscoveryLimit)]
        @@ EmptyMap

\* the identifiers and frameworks the model's callers name
KnownNames ==
    {"Foo", "Bar", "Nope", "+(_:_:)", "*(_:_:)"} \cup SiteUrls
        \cup {ParsedPages[key].title : key \in DOMAIN ParsedPages}
KnownFrameworks ==
    {"UIKit", "SwiftUI", "Swift"} \cup {ParsedPages[key].framework : key \in DOMAIN ParsedPages}

----------------------------------------------------------------------------
(* ApiCacheManager, the no-expiry manager (CACHE_VERSION 1.1.0).           *)
(* Every operation takes and returns io, the world it acts on:             *)
(*   files, meta, mem   the state                                          *)
(*   req, fsn           network requests and cache calls issued so far     *)
(*   faults             file accesses that threw so far                    *)
(*   log                what the operation did, in order                   *)
(* and reads env: t (Date.now()), failAt (the ordinals of the network      *)
(* requests that fail), stFailAt (the ordinals of the cache calls whose    *)
(* first file read or write throws).                                       *)

SafeChars == UpperSet \cup CharsOf(LowerChars) \cup CharsOf(DigitChars) \cup {".", "-"}

\* the character class [a-zA-Z0-9.-]
SafeChar(c) == c \in SafeChars

\* name.replace(/[^a-zA-Z0-9.-]/g, '_').toLowerCase()
RECURSIVE ReplaceUnsafe(_)
ReplaceUnsafe(name) ==
    IF name = "" THEN ""
    ELSE ReplaceUnsafe(SubSeq(name, 1, Len(name) - 1)) \o
         (IF SafeChar(Char(name, Len(name))) THEN Char(name, Len(name)) ELSE "_")

sanitizeFileName(name) == toLowerCase(ReplaceUnsafe(name))

\* path.join(cacheDir, `${sanitizedName}.json`): the directory and the
\* extension are the same for every entry, the sanitised name is the path
CacheFilePath(apiName, framework) ==
    sanitizeFileName(framework \o "-" \o apiName)

\* the paths of the texts the model's callers use, computed once
FilePaths ==
    [key \in KnownNames \X KnownFrameworks |-> CacheFilePath(key[1], key[2])] @@ EmptyMap

getCacheFilePath(apiName, framework) ==
    IF <<apiName, framework>> \in DOMAIN FilePaths
    THEN FilePaths[<<apiName, framework>>]
    ELSE CacheFilePath(apiName, framework)

Event(ev, what, ok) == [ev |-> ev, what |-> what, ok |-> ok]

\* the content of an entry file that fs.readFileSync or JSON.parse throws
\* on: one that cannot be read, or that does not hold JSON
Unreadable == [unreadable |-> TRUE]

IsUnreadable(content) == "unreadable" \in DOMAIN content

\* JSON.parse(fs.readFileSync(filePath, 'utf8')) throws for a file of the
\* listing
ReadThrows(io, apiFiles) ==
    \E i \in DOMAIN apiFiles : IsUnreadable(io.files[apiFiles[i]])

\* getMetadata: the stored metadata, or the default when there is no file
getMetadata(io, env) ==
    IF io.meta # {} THEN CHOOSE m \in io.meta : TRUE
    ELSE [totalApis |-> 0, lastCleanup |-> env.t, frameworks |-> <<>>]

\* saveMetadata
saveMetadata(io, metadata) == [io EXCEPT !.meta = {metadata}]

\* cacheApi as it would be if a new entry started with no access counted
cacheApi_countFromZero(io, apiData, env) ==
    LET n          == io.fsn + 1
        cachedData == apiData @@
                      [cachedAt |-> env.t, lastAccessed |-> env.t, accessCount |-> 0]
        written(filePath) ==
            LET updateMetadata(io2, metadata) ==
                    saveMetadata(io2,
                        [metadata EXCEPT
                            !.totalApis = @ + 1,
                            !.frameworks =
                                IF apiData.framework \in Range(@) THEN @
                                ELSE Append(@, apiData.framework)])
                saved(io2) == updateMetadata(io2, getMetadata(io2, env))
            IN  saved([io EXCEPT
                          !.fsn = n,
                          !.files = [p \in DOMAIN @ \cup {filePath} |->
                                        IF p = filePath THEN cachedData ELSE @[p]],
                          !.log = Append(@, Event("put", filePath, TRUE))])
    IN  written(getCacheFilePath(apiData.apiName, apiData.framework))

\* cacheApi as it would be if it counted the entry in the metadata before
\* it wrote the entry file
cacheApi_metadataFirst(io, apiData, env) ==
    LET n          == io.fsn + 1
        cachedData == apiData @@
                      [cachedAt |-> env.t, lastAccessed |-> env.t, accessCount |-> 1]
        counted(filePath, io2) ==
            IF n \in env.stFailAt
            THEN [io2 EXCEPT !.fsn = n, !.faults = @ + 1,
                             !.log = Append(@, Event("put", filePath, FALSE))]
            ELSE [io2 EXCEPT
                     !.fsn = n,
                     !.files = [p \in DOMAIN @ \cup {filePath} |->
                                   IF p = filePath THEN cachedData ELSE @[p]],
                     !.log = Append(@, Event("put", filePath, TRUE))]
        updateMetadata(metadata) ==
            saveMetadata(io,
                [metadata EXCEPT
                    !.totalApis = @ + 1,
                    !.frameworks =
                        IF apiData.framework \in Range(@) THEN @
                        ELSE Append(@, apiData.framework)])
    IN  counted(getCacheFilePath(apiData.apiName, apiData.framework),
                updateMetadata(getMetadata(io, env)))

\* cacheApi as it would be if it stored the framework of the entry in
\* place of the framework list
cacheApi_replacingFrameworks(io, apiData, env) ==
    LET cachedData == apiData @@
                      [cachedAt |-> env.t, lastAccessed |-> env.t, accessCount |-> 1]
        written(filePath) ==
            LET updateMetadata(io2, metadata) ==
                    saveMetadata(io2,
                        [metadata EXCEPT !.totalApis = @ + 1,
                                         !.frameworks = <<apiData.framework>>])
                saved(io2) == updateMetadata(io2, getMetadata(io2, env))
            IN  saved([io EXCEPT
                          !.fsn = @ + 1,
                          !.files = [p \in DOMAIN @ \cup {filePath} |->
                                        IF p = filePath THEN cachedData ELSE @[p]],
                          !.log = Append(@, Event("put", filePath, TRUE))])
    IN  written(getCacheFilePath(apiData.apiName, apiData.framework))

\* cacheApi: write the entry file, then totalApis++ and the framework list;
\* an error is logged, not raised
cacheApi(io, apiData, env) ==
    LET n          == io.fsn + 1
        cachedData == apiData @@
                      [cachedAt |-> env.t, lastAccessed |-> env.t, accessCount |-> 1]
        written(filePath) ==
            LET updateMetadata(io2, metadata) ==
                    saveMetadata(io2,
                        [metadata EXCEPT
                            !.totalApis = @ + 1,
                            !.frameworks =
                                IF apiData.framework \in Range(@) THEN @
                                ELSE Append(@, apiData.framework)])
                saved(io2) == updateMetadata(io2, getMetadata(io2, env))
            IN  IF n \in env.stFailAt
                THEN [io EXCEPT !.fsn = n, !.faults = @ + 1,
                                !.log = Append(@, Event("put", filePath, FALSE))]
                ELSE saved([io EXCEPT
                               !.fsn = n,
                               !.files = [p \in DOMAIN @ \cup {filePath} |->
                                             IF p = filePath THEN cachedData ELSE @[p]],
                               !.log = Append(@, Event("put", filePath, TRUE))])
    IN  written(getCacheFilePath(apiData.apiName, apiData.framework))

\* getCachedApi as it would be if a hit left the access count alone
getCachedApi_noCount(io, apiName, framework, env) ==
    LET n == io.fsn + 1
        read(filePath) ==
            LET hit(cachedData) ==
                    [io  |-> [io EXCEPT
                                 !.fsn = n,
                                 !.files[filePath] = cachedData,
                                 !.log = Append(@, Event("get", filePath, TRUE))],
                     found |-> TRUE, ret |-> cachedData]
            IN  IF filePath \notin DOMAIN io.files \/ n \in env.stFailAt
                THEN [io  |-> [io EXCEPT !.fsn = n,
                                         !.log = Append(@, Event("get", filePath, FALSE))],
                      found |-> FALSE, ret |-> Null]
                ELSE hit([io.files[filePath] EXCEPT !.lastAccessed = env.t])
    IN  read(getCacheFilePath(apiName, framework))

\* getCachedApi as it would be if an entry older than the present moment
\* were deleted and reported as a miss
getCachedApi_expiring(io, apiName, framework, env) ==
    LET n == io.fsn + 1
        read(filePath) ==
            LET hit(cachedData) ==
                    [io  |-> [io EXCEPT
                                 !.fsn = n,
                                 !.files[filePath] = cachedData,
                                 !.log = Append(@, Event("get", filePath, TRUE))],
                     found |-> TRUE, ret |-> cachedData]
            IN  IF filePath \notin DOMAIN io.files
                THEN [io  |-> [io EXCEPT !.fsn = n,
                                         !.log = Append(@, Event("get", filePath, FALSE))],
                      found |-> FALSE, ret |-> Null]
                ELSE IF env.t - io.files[filePath].cachedAt > 0
                THEN [io  |-> [io EXCEPT
                                 !.fsn = n,
                                 !.files = [p \in DOMAIN @ \ {filePath} |-> @[p]],
                                 !.log = @ \o <<Event("unlink", filePath, TRUE),
                                                Event("get", filePath, FALSE)>>],
                      found |-> FALSE, ret |-> Null]
                ELSE hit([io.files[filePath] EXCEPT
                             !.lastAccessed = env.t,
                             !.accessCount = @ + 1])
    IN  read(getCacheFilePath(apiName, framework))

\* getCachedApi: null on a miss; on a hit lastAccessed = now, accessCount++,
\* the file rewritten, the updated entry returned
getCachedApi(io, apiName, framework, env) ==
    LET n == io.fsn + 1
        read(filePath) ==
            LET hit(cachedData) ==
                    [io  |-> [io EXCEPT
                                 !.fsn = n,
                                 !.files[filePath] = cachedData,
                                 !.log = Append(@, Event("get", filePath, TRUE))],
                     found |-> TRUE, ret |-> cachedData]
            IN  IF filePath \notin DOMAIN io.files
                THEN [io  |-> [io EXCEPT !.fsn = n,
                                         !.log = Append(@, Event("get", filePath, FALSE))],
                      found |-> FALSE, ret |-> Null]
                ELSE IF n \in env.stFailAt
                THEN [io  |-> [io EXCEPT !.fsn = n, !.faults = @ + 1,
                                         !.log = Append(@, Event("get", filePath, FALSE))],
                      found |-> FALSE, ret |-> Null]
                ELSE hit([io.files[filePath] EXCEPT
                             !.lastAccessed = env.t,
                             !.accessCount = @ + 1])
    IN  read(getCacheFilePath(apiName, framework))

\* apiCacheManager.ts, the manager with a time to live: entries expire
\* after so many days
MAX_CACHE_AGE_DAYS == 7

\* the manager with a time to live as it would be if its getCachedApi
\* checked no age
getCachedApiTtl_noExpiry(io, apiName, framework, env) ==
    getCachedApi(io, apiName, framework, env)

\* getCachedApi of the manager with a time to live: null on a miss; an
\* entry older than maxAge is unlinked and null returned; any other hit
\* is counted, rewritten and returned
getCachedApiTtl(io, apiName, framework, env) ==
    LET n      == io.fsn + 1
        maxAge == MAX_CACHE_AGE_DAYS * 24 * 60 * 60 * 1000
        read(filePath) ==
            LET hit(cachedData) ==
                    [io  |-> [io EXCEPT
                                 !.fsn = n,
                                 !.files[filePath] = cachedData,
                                 !.log = Append(@, Event("get", filePath, TRUE))],
                     found |-> TRUE, ret |-> cachedData]
                cacheAge(cachedData) == env.t - cachedData.cachedAt
            IN  IF filePath \notin DOMAIN io.files
                THEN [io  |-> [io EXCEPT !.fsn = n,
                                         !.log = Append(@, Event("get", filePath, FALSE))],
                      found |-> FALSE, ret |-> Null]
                ELSE IF n \in env.stFailAt
                THEN [io  |-> [io EXCEPT !.fsn = n, !.faults = @ + 1,
                                         !.log = Append(@, Event("get", filePath, FALSE))],
                      found |-> FALSE, ret |-> Null]
                ELSE IF cacheAge(io.files[filePath]) > maxAge
                THEN [io  |-> [io EXCEPT
                                 !.fsn = n,
                                 !.files = [p \in DOMAIN @ \ {filePath} |-> @[p]],
                                 !.log = @ \o <<Event("unlink", filePath, TRUE),
                                                Event("get", filePath, FALSE)>>],
                      found |-> FALSE, ret |-> Null]
                ELSE hit([io.files[filePath] EXCEPT
                             !.lastAccessed = env.t,
                             !.accessCount = @ + 1])
    IN  read(getCacheFilePath(apiName, framework))

\* the comparator of cleanupCache's sort: accessCount, then lastAccessed
CleanupBefore(a, b) ==
    IF a.accessCount # b.accessCount
    THEN a.accessCount < b.accessCount
    ELSE a.lastAccessed < b.lastAccessed

\* Array.prototype.sort with that comparator: stable, so entries the
\* comparator does not separate keep their directory order
RECURSIVE SortStable(_)
SortStable(list) ==
    IF list = <<>> THEN <<>>
    ELSE LET init == SortStable(SubSeq(list, 1, Len(list) - 1))
             x    == list[Len(list)]
             \* x goes after the last element it is not strictly before
             pos  == IF \E i \in DOMAIN init : ~CleanupBefore(x, init[i])
                     THEN CHOOSE i \in DOMAIN init :
                            /\ ~CleanupBefore(x, init[i])
                            /\ \A j \in DOMAIN init : j > i => CleanupBefore(x, init[j])
                     ELSE 0
         IN  SubSeq(init, 1, pos) \o <<x>> \o SubSeq(init, pos + 1, Len(init))

\* cleanupCache as it would be if the listing were not sorted before the
\* entries to delete are taken from its front
cleanupCache_unsorted(io, apiFiles, env) ==
    LET unlinkAndSave(filesToRemove) ==
            LET unlinked(io1) ==
                    [io  |-> saveMetadata(io1,
                                [getMetadata(io1, env) EXCEPT
                                    !.totalApis = @ - Len(filesToRemove),
                                    !.lastCleanup = env.t]),
                     ret |-> Len(filesToRemove)]
            IN  unlinked([io EXCEPT
                    !.files = [p \in DOMAIN @ \ Range(filesToRemove) |-> @[p]],
                    !.log = @ \o [i \in DOMAIN filesToRemove |->
                                     Event("unlink", filesToRemove[i], TRUE)]])
    IN  unlinkAndSave(IF Len(apiFiles) > MAX_CACHE_SIZE
                      THEN Slice0(apiFiles, Len(apiFiles) - MAX_CACHE_SIZE)
                      ELSE <<>>)

\* cleanupCache: over MAX_CACHE_SIZE entries, delete the least used ones;
\* apiFiles is the directory listing, in the order readdirSync gives it.
\* An unlinkSync that throws ends the loop in the catch block, which
\* returns 0 and leaves the metadata as it was
cleanupCache(io, apiFiles, env) ==
    LET unlinkAndSave(filesToRemove) ==
            LET throwing     == DOMAIN filesToRemove \cap env.stFailAt
                removedCount == IF throwing = {} THEN Len(filesToRemove)
                                ELSE Min(throwing) - 1
                unlinked(io1) ==
                    IF throwing = {}
                    THEN [io  |-> saveMetadata(io1,
                                     [getMetadata(io1, env) EXCEPT
                                         !.totalApis = @ - removedCount,
                                         !.lastCleanup = env.t]),
                          ret |-> removedCount]
                    ELSE [io  |-> [io1 EXCEPT
                                     !.faults = @ + 1,
                                     !.log = Append(@,
                                         Event("unlink",
                                               filesToRemove[removedCount + 1].file,
                                               FALSE))],
                          ret |-> 0]
            IN  unlinked([io EXCEPT
                    !.files = [p \in DOMAIN @ \ {filesToRemove[i].file :
                                                     i \in 1..removedCount} |-> @[p]],
                    !.log = @ \o [i \in 1..removedCount |->
                                     Event("unlink", filesToRemove[i].file, TRUE)]])
        filesWithStats == [i \in DOMAIN apiFiles |->
                              [file |-> apiFiles[i]] @@ io.files[apiFiles[i]]]
    IN  IF Len(apiFiles) > MAX_CACHE_SIZE /\ ReadThrows(io, apiFiles)
        \* the entries are all read before any is deleted: the catch block
        THEN [io  |-> [io EXCEPT !.faults = @ + 1,
                                 !.log = Append(@, Event("cleanup", "", FALSE))],
              ret |-> 0]
        ELSE unlinkAndSave(IF Len(apiFiles) > MAX_CACHE_SIZE
                           THEN Slice0(SortStable(filesWithStats),
                                       Len(apiFiles) - MAX_CACHE_SIZE)
                           ELSE <<>>)

\* clearCache as it would be if it deleted the entry files and left the
\* stored metadata as it was
clearCache_keepsMetadata(io, env) ==
    [io EXCEPT !.files = EmptyMap,
               !.log = Append(@, Event("clear", "", TRUE) @@
                                    [n |-> Cardinality(DOMAIN io.files)])]

\* clearCache: delete every .json file (metadata.json too), then write
\* fresh metadata
clearCache(io, env) ==
    saveMetadata([io EXCEPT !.files = EmptyMap, !.meta = {},
                            !.log = Append(@, Event("clear", "", TRUE) @@
                                                 [n |-> Cardinality(DOMAIN io.files)])],
                 [totalApis |-> 0, lastCleanup |-> env.t, frameworks |-> <<>>])

\* resetAllCacheData: clearCache, which raises nothing
resetAllCacheData(io, env) == clearCache(io, env)

\* entries searchCachedApis returns
SearchLimit == 10

\* [..].join(' ')
RECURSIVE Join(_)
Join(list) ==
    IF list = <<>> THEN ""
    ELSE IF Len(list) = 1 THEN list[1]
    ELSE list[1] \o " " \o Join(Tail(list))

\* the text of an entry that searchCachedApis searches
searchableText(cachedData) ==
    toLowerCase(Join(<<cachedData.apiName, cachedData.documentation>>
                     \o cachedData.methods \o cachedData.properties))

\* 2 when the name holds the term, else 1
Relevance(cachedData, searchLower) ==
    IF includes(toLowerCase(cachedData.apiName), searchLower) THEN 2 ELSE 1

\* the comparator as it would be if it compared the access counts alone
SearchBefore_countOnly(a, b, searchLower) == b.accessCount < a.accessCount

\* the comparator of searchCachedApis' sort: relevance, then accessCount,
\* both descending
SearchBefore(a, b, searchLower) ==
    IF Relevance(a, searchLower) # Relevance(b, searchLower)
    THEN Relevance(b, searchLower) < Relevance(a, searchLower)
    ELSE b.accessCount < a.accessCount

\* Array.prototype.sort with that comparator: stable
RECURSIVE SortResults(_, _)
SortResults(list, searchLower) ==
    IF list = <<>> THEN <<>>
    ELSE LET placed(init, x) ==
                 LET after == {i \in DOMAIN init : ~SearchBefore(x, init[i], searchLower)}
                     pos   == IF after = {} THEN 0
                              ELSE CHOOSE i \in after : \A j \in after : j <= i
                 IN  SubSeq(init, 1, pos) \o <<x>> \o SubSeq(init, pos + 1, Len(init))
         IN  placed(SortResults(SubSeq(list, 1, Len(list) - 1), searchLower),
                    list[Len(list)])

\* the entries of the listing that pass the framework filter and hold the
\* term, in the order of the listing
RECURSIVE Matches(_, _, _, _)
Matches(io, apiFiles, searchLower, framework) ==
    IF apiFiles = <<>> THEN <<>>
    ELSE LET cachedData == io.files[Head(apiFiles)]
             rest       == Matches(io, Tail(apiFiles), searchLower, framework)
         IN  IF framework # "" /\ cachedData.framework # framework THEN rest
             ELSE IF includes(searchableText(cachedData), searchLower)
             THEN <<cachedData>> \o rest
             ELSE rest

\* searchCachedApis as it would be if it passed over an entry file that
\* it cannot read
searchCachedApis_skipUnreadable(io, apiFiles, searchTerm, framework, env) ==
    LET sorted(results) == SortResults(results, toLowerCase(searchTerm))
        readable == SelectSeq(apiFiles, LAMBDA p : ~IsUnreadable(io.files[p]))
    IN  [io  |-> [io EXCEPT !.fsn = @ + 1,
                            !.log = Append(@, Event("search", searchTerm, TRUE))],
         ret |-> Slice0(sorted(Matches(io, readable, toLowerCase(searchTerm),
                                       framework)),
                        SearchLimit)]

\* searchCachedApis(searchTerm, framework?): framework "" is "not given";
\* every entry file of the listing is read, before the framework filter;
\* an error is logged and gives []
searchCachedApis(io, apiFiles, searchTerm, framework, env) ==
    LET n == io.fsn + 1
        sorted(results) == SortResults(results, toLowerCase(searchTerm))
    IN  IF n \in env.stFailAt \/ ReadThrows(io, apiFiles)
        THEN [io  |-> [io EXCEPT !.fsn = n, !.faults = @ + 1,
                                 !.log = Append(@, Event("search", searchTerm, FALSE))],
              ret |-> <<>>]
        ELSE [io  |-> [io EXCEPT !.fsn = n,
                                 !.log = Append(@, Event("search", searchTerm, TRUE))],
              ret |-> Slice0(sorted(Matches(io, apiFiles, toLowerCase(searchTerm),
                                            framework)),
                             SearchLimit)]

\* the loop of getCacheStats over the listing: the entry with the highest
\* accessCount, the first of the listing among equals
RECURSIVE MostAccessed(_, _, _)
MostAccessed(io, apiFiles, mostAccessed) ==
    IF apiFiles = <<>> THEN mostAccessed
    ELSE LET cachedData == io.files[Head(apiFiles)]
         IN  MostAccessed(io, Tail(apiFiles),
                 IF cachedData.accessCount > mostAccessed.count
                 THEN [api   |-> cachedData.framework \o "." \o cachedData.apiName,
                       count |-> cachedData.accessCount]
                 ELSE mostAccessed)

\* getCacheStats: the entries are counted from the listing, the frameworks
\* are those of the stored metadata; an error is logged and gives the
\* empty statistics.  The disk usage and the two dates, which are texts
\* for display, are left out.
getCacheStats(io, apiFiles, env) ==
    LET n == io.fsn + 1
        counted(metadata, mostAccessed) ==
            [totalApis |-> Len(apiFiles),
             frameworks |-> metadata.frameworks,
             mostAccessedApi |-> IF mostAccessed.api # "" THEN mostAccessed.api
                                 ELSE Undefined,
             cacheSize |-> Len(apiFiles),
             maxCacheSize |-> MAX_CACHE_SIZE]
    IN  IF n \in env.stFailAt \/ ReadThrows(io, apiFiles)
        THEN [io  |-> [io EXCEPT !.fsn = n, !.faults = @ + 1,
                                 !.log = Append(@, Event("stats", "", FALSE))],
              ret |-> [totalApis |-> 0, frameworks |-> <<>>,
                       mostAccessedApi |-> Undefined,
                       cacheSize |-> 0, maxCacheSize |-> MAX_CACHE_SIZE]]
        ELSE [io  |-> [io EXCEPT !.fsn = n,
                                 !.log = Append(@, Event("stats", "", TRUE))],
              ret |-> counted(getMetadata(io, env),
                              MostAccessed(io, apiFiles, [api |-> "", count |-> 0]))]

----------------------------------------------------------------------------
(* DeepDocsScraper.  An operation returns [io, found, ret, thrown]: found  *)
(* tells a result from null, thrown tells that it raised to its caller.    *)

Ret(io, found, ret, thrown) ==
    [io |-> io, found |-> found, ret |-> ret, thrown |-> thrown]

\* axios.get(url): the request is issued; it throws when it fails or when
\* the site has no such page
axiosGet(io, url, exists, env) ==
    LET n  == io.req + 1
        ok == exists /\ n \notin env.failAt
    IN  Ret([io EXCEPT !.req = n, !.log = Append(@, Event("fetch", url, ok))],
            ok, Null, ~ok)

\* a catch block that logs the error and returns a value
Caught(b, found, ret) ==
    IF b.thrown THEN Ret(b.io, found, ret, FALSE) ELSE b

\* the try block of scrapeApiPage
scrapeApiPage_try(io, url, env) ==
    LET fetched(g) ==
            IF g.thrown THEN g
            ELSE Ret([g.io EXCEPT !.mem = [u \in DOMAIN @ \cup {url} |->
                                              IF u = url THEN ParsedPages[<<url, env.k>>]
                                              ELSE @[u]]],
                     TRUE, ParsedPages[<<url, env.k>>], FALSE)
    IN  fetched(axiosGet(io, url, url \in SiteUrls, env))

\* scrapeApiPage: the page map first; a failure is logged and gives null
scrapeApiPage(io, url, env) ==
    IF url \in DOMAIN io.mem THEN Ret(io, TRUE, io.mem[url], FALSE)
    ELSE Caught(scrapeApiPage_try(io, url, env), FALSE, Null)

\* encodeURIComponent: letters, digits and - _ . ! ~ * ' ( ) are kept, the
\* other characters the model's texts hold are percent-encoded
EncodeChar(c) ==
    IF SafeChar(c) \/ c \in {"_", "!", "~", "*", "'", "(", ")"} THEN c
    ELSE IF c = " " THEN "%20"
    ELSE IF c = "#" THEN "%23"
    ELSE IF c = "/" THEN "%2F"
    ELSE IF c = ":" THEN "%3A"
    ELSE "%3F"

RECURSIVE encodeURIComponent(_)
encodeURIComponent(s) ==
    IF s = "" THEN ""
    ELSE encodeURIComponent(SubSeq(s, 1, Len(s) - 1)) \o EncodeChar(Char(s, Len(s)))

\* the try block of findMainApiPage
findMainApiPage_try(io, apiName, framework, env) ==
    LET searchUrl == baseUrl \o "/search/?q=" \o encodeURIComponent(apiName) \o
                     (IF framework # ""
                      THEN "&framework=" \o toLowerCase(framework) ELSE "")
        first == SearchFirstHref(apiName)
        open(g, href) ==
            scrapeApiPage(g.io,
                          IF startsWith(href, "http") THEN href ELSE baseUrl \o href,
                          env)
        searched(g) ==
            IF g.thrown THEN g
            ELSE IF first = {} THEN Ret(g.io, FALSE, Null, FALSE)
            ELSE open(g, CHOOSE h \in first : TRUE)
    IN  searched(axiosGet(io, searchUrl, TRUE, env))

\* findMainApiPage as it would be without its catch block
findMainApiPage_uncaught(io, apiName, framework, env) ==
    findMainApiPage_try(io, apiName, framework, env)

\* findMainApiPage: a failure is logged and gives null
findMainApiPage(io, apiName, framework, env) ==
    Caught(findMainApiPage_try(io, apiName, framework, env), FALSE, Null)

\* the try block of scrapeRelatedApis as it would be without the limit on
\* the links it returns
scrapeRelatedApis_unlimited(io, mainUrl, env) ==
    LET fetched(g) ==
            IF g.thrown THEN g
            ELSE Ret(g.io, TRUE, Dedupe(DocLinks(PageAt(mainUrl, env.k).hrefs)), FALSE)
    IN  fetched(axiosGet(io, mainUrl, mainUrl \in SiteUrls, env))

\* the try block of scrapeRelatedApis
scrapeRelatedApis_try(io, mainUrl, env) ==
    LET fetched(g) ==
            IF g.thrown THEN g
            ELSE Ret(g.io, TRUE, DiscoveredLinks[<<mainUrl, env.k>>], FALSE)
    IN  fetched(axiosGet(io, mainUrl, mainUrl \in SiteUrls, env))

\* scrapeRelatedApis: a failure is logged and gives []
scrapeRelatedApis(io, mainUrl, env) ==
    Caught(scrapeRelatedApis_try(io, mainUrl, env), TRUE, <<>>)

\* convertCachedToDeepDoc (the model's entries hold no property or method
\* summaries, so parsePropertiesFromCache and parseMethodsFromCache map
\* empty lists)
convertCachedToDeepDoc(cached) ==
    [title |-> cached.apiName,
     framework |-> cached.framework,
     type |-> "class",
     description |-> cached.documentation,
     url |-> "#cached",
     availability |-> "Available",
     isDeprecated |-> \E d \in cached.deprecationInfo : d.isDeprecated,
     deprecationInfo |-> IF cached.deprecationInfo = {} THEN Undefined
                         ELSE (CHOOSE d \in cached.deprecationInfo : TRUE).reason,
     codeExamples |-> cached.examples,
     relatedApis |-> cached.relatedApis,
     properties |-> cached.properties,
     methods |-> cached.methods,
     fromCache |-> TRUE]

\* getCachedResult
getCachedResult(io, apiName, framework, env) ==
    LET converted(c) ==
            IF c.found THEN Ret(c.io, TRUE, convertCachedToDeepDoc(c.ret), FALSE)
            ELSE Ret(c.io, FALSE, Null, FALSE)
    IN  converted(getCachedApi(io, apiName, framework, env))

\* cacheResult: the CachedApiData of a DeepDocResult, handed to cacheApi
cacheResult(io, result, env) ==
    LET cacheData ==
            [apiName |-> result.title,
             framework |-> result.framework,
             documentation |-> result.description,
             properties |-> result.properties,
             methods |-> result.methods,
             examples |-> result.codeExamples,
             relatedApis |-> result.relatedApis,
             \* an optional object: {} when undefined
             deprecationInfo |->
                IF result.isDeprecated
                THEN {[isDeprecated |-> TRUE,
                       reason |-> IF result.deprecationInfo \notin {Undefined, ""}
                                  THEN result.deprecationInfo
                                  ELSE "This API is deprecated",
                       alternative |-> "Check Apple documentation for alternatives"]}
                ELSE {}]
    IN  Ret(cacheApi(io, cacheData, env), TRUE, Null, FALSE)

\* Step 4 as it would be if the first link of each related page that
\* resolved were fetched as well and its record added
RECURSIVE relatedLoop_following(_, _, _, _, _, _)
relatedLoop_following(io, relatedApis, i, results, framework, env) ==
    LET followed(next, relatedDoc) ==
            relatedLoop_following(next.io, relatedApis, i + 1,
                IF next.found /\ ~next.thrown
                THEN results \o <<relatedDoc, next.ret>>
                ELSE Append(results, relatedDoc),
                framework, env)
        scrapedPage(scraped) ==
            IF scraped.thrown THEN scraped
            ELSE IF ~scraped.found
            THEN relatedLoop_following(scraped.io, relatedApis, i + 1, results,
                                       framework, env)
            ELSE IF scraped.ret.relatedApis = <<>>
            THEN relatedLoop_following(scraped.io, relatedApis, i + 1,
                                       Append(results, scraped.ret), framework, env)
            ELSE followed(scrapeApiPage(scraped.io, scraped.ret.relatedApis[1], env),
                          scraped.ret)
    IN  IF i > Len(relatedApis) THEN Ret(io, TRUE, results, FALSE)
        ELSE scrapedPage(scrapeApiPage(io, relatedApis[i], env))

\* Step 4 as it would be if a related page that does not resolve ended
\* the loop
RECURSIVE relatedLoop_stopAtFailure(_, _, _, _, _, _)
relatedLoop_stopAtFailure(io, relatedApis, i, results, framework, env) ==
    LET stored(put, relatedDoc) ==
            relatedLoop_stopAtFailure(put.io, relatedApis, i + 1,
                                      Append(results, relatedDoc), framework, env)
        scrapedPage(scraped) ==
            IF scraped.thrown THEN scraped
            ELSE IF ~scraped.found THEN Ret(scraped.io, TRUE, results, FALSE)
            ELSE stored(cacheResult(scraped.io, scraped.ret, env), scraped.ret)
        lookedUp(cached) ==
            IF cached.found
            THEN relatedLoop_stopAtFailure(cached.io, relatedApis, i + 1,
                                           Append(results, cached.ret), framework, env)
            ELSE scrapedPage(scrapeApiPage(cached.io, relatedApis[i], env))
    IN  IF i > Len(relatedApis) THEN Ret(io, TRUE, results, FALSE)
        ELSE lookedUp(IF framework # ""
                      THEN getCachedResult(io, relatedApis[i], framework, env)
                      ELSE Ret(io, FALSE, Null, FALSE))

\* Step 4 of scrapeApiInDepth: each related link in turn, the cache first
\* when a framework is given, else the page; a page that resolved is cached
RECURSIVE relatedLoop(_, _, _, _, _, _)
relatedLoop(io, relatedApis, i, results, framework, env) ==
    LET stored(put, relatedDoc) ==
            IF put.thrown THEN put
            ELSE relatedLoop(put.io, relatedApis, i + 1, Append(results, relatedDoc),
                             framework, env)
        scrapedPage(scraped) ==
            IF scraped.thrown THEN scraped
            ELSE IF ~scraped.found
            THEN relatedLoop(scraped.io, relatedApis, i + 1, results, framework, env)
            ELSE stored(cacheResult(scraped.io, scraped.ret, env), scraped.ret)
        lookedUp(cached) ==
            IF cached.thrown THEN cached
            ELSE IF cached.found
            THEN relatedLoop(cached.io, relatedApis, i + 1,
                             Append(results, cached.ret), framework, env)
            ELSE scrapedPage(scrapeApiPage(cached.io, relatedApis[i], env))
    IN  IF i > Len(relatedApis) THEN Ret(io, TRUE, results, FALSE)
        ELSE lookedUp(IF framework # ""
                      THEN getCachedResult(io, relatedApis[i], framework, env)
                      ELSE Ret(io, FALSE, Null, FALSE))

\* searchRelatedInCache: the first 5 related names, hits only
RECURSIVE searchRelatedInCache_loop(_, _, _, _, _, _)
searchRelatedInCache_loop(io, names, i, results, framework, env) ==
    LET next(cached) ==
            IF cached.thrown THEN cached
            ELSE searchRelatedInCache_loop(cached.io, names, i + 1,
                     IF cached.found THEN Append(results, cached.ret) ELSE results,
                     framework, env)
    IN  IF i > Len(names) THEN Ret(io, TRUE, results, FALSE)
        ELSE next(getCachedResult(io, names[i], framework, env))

\* searchRelatedInCache as it would be if a related name that is not in
\* the cache were fetched, as it is in Step 4
searchRelatedInCache_fetching(io, relatedApis, framework, env) ==
    relatedLoop(io, Slice0(relatedApis, CachedRelatedLimit), 1, <<>>, framework, env)

searchRelatedInCache(io, relatedApis, framework, env) ==
    searchRelatedInCache_loop(io, Slice0(relatedApis, CachedRelatedLimit), 1, <<>>,
                              framework, env)

\* Steps 2 to 4 of scrapeApiInDepth: the network
scrapeFromWeb(io, apiName, framework, results, env) ==
    LET discovered(relatedApis, mainDoc) ==
            IF relatedApis.thrown THEN relatedApis
            ELSE relatedLoop(relatedApis.io, Slice0(relatedApis.ret, RelatedLimit), 1,
                             Append(results, mainDoc), framework, env)
        stored(put, mainDoc) ==
            IF put.thrown THEN put
            ELSE discovered(scrapeRelatedApis(put.io, mainDoc.url, env), mainDoc)
        resolved(mainDoc) ==
            IF mainDoc.thrown THEN mainDoc
            ELSE IF ~mainDoc.found THEN Ret(mainDoc.io, TRUE, results, FALSE)
            ELSE stored(cacheResult(mainDoc.io, mainDoc.ret, env), mainDoc.ret)
    IN  resolved(findMainApiPage(io, apiName, framework, env))

\* scrapeApiInDepth(apiName, framework?); framework "" is "not given"
scrapeApiInDepth(io, apiName, framework, env) ==
    LET related(relatedCached, cachedResult) ==
            IF relatedCached.thrown THEN relatedCached
            ELSE Ret(relatedCached.io, TRUE, <<cachedResult>> \o relatedCached.ret,
                     FALSE)
        lookedUp(cachedResult) ==
            IF cachedResult.thrown THEN cachedResult
            ELSE IF ~cachedResult.found
            THEN scrapeFromWeb(cachedResult.io, apiName, framework, <<>>, env)
            ELSE related(searchRelatedInCache(cachedResult.io,
                                              cachedResult.ret.relatedApis,
                                              framework, env),
                         cachedResult.ret)
    IN  lookedUp(IF framework # ""
                 THEN getCachedResult(io, apiName, framework, env)
                 ELSE Ret(io, FALSE, Null, FALSE))

----------------------------------------------------------------------------
(* EnhancedContextProvider.enhancePromptWithIntelligentRAG.                *)

\* expanded identifiers that are resolved
SeedLimit == 8

\* Buffer.from(content).toString('base64').substring(0, 32): 32 characters
\* of base64 spell the first 24 bytes of the content, so two contents get
\* the same key exactly when their first 24 characters agree
KeyBytes == 24
generateCacheKey_whole(prompt, codeContext) == prompt \o codeContext

\* generateCacheKey(prompt, codeContext?): codeContext "" is "not given"
generateCacheKey(prompt, codeContext) == Slice0(prompt \o codeContext, KeyBytes)

\* the loop over the seeds as it would be if a seed that yields nothing
\* ended the loop
RECURSIVE deepScrapeAll_stopAtEmpty(_, _, _, _, _)
deepScrapeAll_stopAtEmpty(io, seeds, i, deepDocumentation, env) ==
    LET scraped(apiDocs) ==
            IF apiDocs.thrown \/ apiDocs.ret = <<>>
            THEN Ret(apiDocs.io, TRUE, deepDocumentation, FALSE)
            ELSE deepScrapeAll_stopAtEmpty(
                     [apiDocs.io EXCEPT
                         !.log = @ \o <<Event("push", seeds[i], TRUE) @@
                                            [n |-> Len(apiDocs.ret)],
                                        Event("delay", seeds[i], TRUE)>>],
                     seeds, i + 1, deepDocumentation \o apiDocs.ret, env)
    IN  IF i > Len(seeds) THEN Ret(io, TRUE, deepDocumentation, FALSE)
        ELSE scraped(scrapeApiInDepth(
                         [io EXCEPT !.log = Append(@, Event("seed", seeds[i], TRUE))],
                         seeds[i], "", env))

\* the loop over the seeds as it would be if the records of a seed were
\* put in front of those collected so far
RECURSIVE deepScrapeAll_prepending(_, _, _, _, _)
deepScrapeAll_prepending(io, seeds, i, deepDocumentation, env) ==
    LET scraped(apiDocs) ==
            IF apiDocs.thrown
            THEN deepScrapeAll_prepending(apiDocs.io, seeds, i + 1,
                                          deepDocumentation, env)
            ELSE deepScrapeAll_prepending(
                     [apiDocs.io EXCEPT
                         !.log = @ \o <<Event("push", seeds[i], TRUE) @@
                                            [n |-> Len(apiDocs.ret)],
                                        Event("delay", seeds[i], TRUE)>>],
                     seeds, i + 1, apiDocs.ret \o deepDocumentation, env)
    IN  IF i > Len(seeds) THEN Ret(io, TRUE, deepDocumentation, FALSE)
        ELSE scraped(scrapeApiInDepth(
                         [io EXCEPT !.log = Append(@, Event("seed", seeds[i], TRUE))],
                         seeds[i], "", env))

\* Step 2: each seed in turn, without a framework; a seed that raises is
\* logged and skipped, after any other the 200 ms delay is awaited
RECURSIVE deepScrapeAll(_, _, _, _, _)
deepScrapeAll(io, seeds, i, deepDocumentation, env) ==
    LET scraped(apiDocs) ==
            IF apiDocs.thrown
            THEN deepScrapeAll(apiDocs.io, seeds, i + 1, deepDocumentation, env)
            ELSE deepScrapeAll(
                     [apiDocs.io EXCEPT
                         !.log = @ \o <<Event("push", seeds[i], TRUE) @@
                                            [n |-> Len(apiDocs.ret)],
                                        Event("delay", seeds[i], TRUE)>>],
                     seeds, i + 1, deepDocumentation \o apiDocs.ret, env)
    IN  IF i > Len(seeds) THEN Ret(io, TRUE, deepDocumentation, FALSE)
        ELSE scraped(scrapeApiInDepth(
                         [io EXCEPT !.log = Append(@, Event("seed", seeds[i], TRUE))],
                         seeds[i], "", env))

\* the EnhancedRAGContext built from the documentation that was collected
RagContext(originalPrompt, cacheKey, expandedApis, deepDocumentation) ==
    LET fromCache == Cardinality({i \in DOMAIN deepDocumentation :
                                     deepDocumentation[i].fromCache})
    IN  [originalPrompt |-> originalPrompt,
         expandedApis |-> expandedApis,
         deepDocumentation |-> deepDocumentation,
         cacheKey |-> cacheKey,
         cacheStats |-> [fromCache |-> fromCache,
                         fromWeb |-> Len(deepDocumentation) - fromCache,
                         totalApis |-> Len(deepDocumentation)]]

\* enhancePromptWithIntelligentRAG as it would be if it did not look for a
\* remembered context
enhancePromptWithIntelligentRAG_noMemo(io, ctx, originalPrompt, codeContext, expandedApis, env) ==
    LET cacheKey == generateCacheKey(originalPrompt, codeContext)
        built(r, result) ==
            [io |-> r.io, found |-> TRUE, thrown |-> r.thrown, ret |-> result,
             ctx |-> [key \in DOMAIN ctx \cup {cacheKey} |->
                         IF key = cacheKey THEN result ELSE ctx[key]]]
        scraped(r) == built(r, RagContext(originalPrompt, cacheKey, expandedApis, r.ret))
    IN  scraped(deepScrapeAll(io, Slice0(expandedApis, SeedLimit), 1, <<>>, env))

\* enhancePromptWithIntelligentRAG(originalPrompt, codeContext?): the remembered context
\* of the key if there is one; else the seeds are resolved and the context
\* is remembered.  expandedApis is what apiMapper.expandApiSearch answers.
\* The result carries ctx, the contextCache after the call.
enhancePromptWithIntelligentRAG(io, ctx, originalPrompt, codeContext, expandedApis, env) ==
    LET cacheKey == generateCacheKey(originalPrompt, codeContext)
        built(r, result) ==
            [io |-> r.io, found |-> TRUE, thrown |-> r.thrown, ret |-> result,
             ctx |-> IF r.thrown THEN ctx
                     ELSE [key \in DOMAIN ctx \cup {cacheKey} |->
                              IF key = cacheKey THEN result ELSE ctx[key]]]
        scraped(r) == built(r, RagContext(originalPrompt, cacheKey, expandedApis, r.ret))
    IN  IF cacheKey \in DOMAIN ctx
        THEN [io |-> io, found |-> TRUE, thrown |-> FALSE, ret |-> ctx[cacheKey],
              ctx |-> ctx]
        ELSE scraped(deepScrapeAll(io, Slice0(expandedApis, SeedLimit), 1, <<>>, env))

----------------------------------------------------------------------------
(* The state machine.                                                      *)

IO0 == [files |-> files, meta |-> meta, mem |-> mem,
        req |-> 0, fsn |-> 0, faults |-> 0, log |-> <<>>]

Env(failAt, stFailAt) ==
    [t |-> now, k |-> nLinks, failAt |-> failAt, stFailAt |-> stFailAt]

NoFaults == Env({}, {})

\* one scrapeApiInDepth issues at most the search, the page, the link
\* discovery and DiscoveryLimit related requests, and two cache calls for
\* the primary identifier and for each related link
MaxRequests == 3 + DiscoveryLimit
MaxCacheCalls == 2 + 2 * DiscoveryLimit

\* a resolution without a framework looks nothing up in the cache: it
\* writes the primary page and each related page it fetched; for a seed
\* the search finds nothing for, it issues the search and nothing else
MaxPuts == 1 + DiscoveryLimit

\* the related links the resolution of apiName can follow: those that
\* scrapeRelatedApis reads off the page the search leads to
LinksFollowed(apiName) ==
    LET href == CHOOSE h \in SearchFirstHref(apiName) : TRUE
    IN  Len(DiscoveredLinks[<<IF startsWith(href, "http") THEN href
                              ELSE baseUrl \o href, nLinks>>])

\* the requests and the cache calls one scrapeApiInDepth can come to issue,
\* whatever fails: of the bounds above, the part the page has links for
ResolveRequests(apiName) ==
    IF SearchFirstHref(apiName) = {} THEN 1
    ELSE MaxRequests - DiscoveryLimit + LinksFollowed(apiName)

ResolveCacheCalls(apiName, framework) ==
    IF SearchFirstHref(apiName) = {} THEN (IF framework = "" THEN 0 ELSE 1)
    ELSE IF framework = "" THEN MaxPuts - DiscoveryLimit + LinksFollowed(apiName)
    ELSE MaxCacheCalls - 2 * DiscoveryLimit + 2 * LinksFollowed(apiName)

RECURSIVE SeedRequests(_)
SeedRequests(seeds) ==
    IF seeds = <<>> THEN 0
    ELSE SeedRequests(Tail(seeds)) + ResolveRequests(Head(seeds))

RECURSIVE SeedCacheCalls(_)
SeedCacheCalls(seeds) ==
    IF seeds = <<>> THEN 0
    ELSE SeedCacheCalls(Tail(seeds)) + ResolveCacheCalls(Head(seeds), "")

\* the failures a call can meet that issues at most so many requests and
\* cache calls: which of its network requests fail, and which of its cache
\* calls meet a file error
RECURSIVE AtMost(_, _)
AtMost(S, n) ==
    IF n = 0 THEN {{}}
    ELSE LET grown(smaller) == smaller \cup {F \cup {x} : F \in smaller, x \in S}
         IN  grown(AtMost(S, n - 1))

Faults(requests, cacheCalls) ==
    UNION {{<<failAt, stFailAt>> :
               stFailAt \in AtMost(1..cacheCalls, faultsLeft - Cardinality(failAt))} :
           failAt \in AtMost(1..requests, faultsLeft)}

\* the history of gets, brought up to date with what an operation did
RECURSIVE ApplyLog(_, _)
ApplyLog(g, log) ==
    IF log = <<>> THEN g
    ELSE LET e  == log[1]
             g1 == IF e.ev = "put" /\ e.ok
                   THEN [p \in DOMAIN g \cup {e.what} |-> IF p = e.what THEN 0 ELSE g[p]]
                   ELSE IF e.ev = "get" /\ e.ok
                   THEN [g EXCEPT ![e.what] = @ + 1]
                   ELSE IF e.ev = "unlink" /\ e.ok
                   THEN [p \in DOMAIN g \ {e.what} |-> g[p]]
                   ELSE IF e.ev = "clear"
                   THEN EmptyMap
                   ELSE g
         IN  ApplyLog(g1, Tail(log))

\* what a flow does between two of its suspensions, written back
Effect(io) ==
    /\ files' = io.files
    /\ meta' = io.meta
    /\ mem' = io.mem
    /\ getsSince' = ApplyLog(getsSince, io.log)

\* an operation that ran from its call to its return with no other flow
\* under way
Commit(io) ==
    /\ Effect(io)
    /\ steps' = steps + 1
    /\ UNCHANGED flows

\* what is remembered of an operation that returned r
Last(op, apiName, framework, r) ==
    [op |-> op, apiName |-> apiName, framework |-> framework,
     found |-> r.found, ret |-> r.ret, thrown |-> r.thrown,
     log |-> r.io.log, req |-> r.io.req, t |-> now, faults |-> r.io.faults]

Done(op, apiName, framework, r) ==
    /\ Commit(r.io)
    /\ last' = Last(op, apiName, framework, r)

ApiNames == {"Foo", "Bar", "Nope"}
Frameworks == {"UIKit", "SwiftUI"}

\* the (identifier, framework) pairs the cache manager is called with
\* directly: three that are put, and one that never is
PutKeys == {<<"Foo", "UIKit">>, <<"Bar", "UIKit">>, <<"Foo", "SwiftUI">>}
GetKeys == PutKeys \cup {<<"Nope", "UIKit">>}

\* the pairs the cache manager is called with over a storage that can
\* fail: two types and two operators of the Swift standard library
StoreKeys == {<<"Foo", "UIKit">>, <<"Bar", "UIKit">>,
              <<"+(_:_:)", "Swift">>, <<"*(_:_:)", "Swift">>}

\* what a caller of cacheApi can hand it
ApiData(apiName, framework, documentation) ==
    [apiName |-> apiName, framework |-> framework, documentation |-> documentation,
     properties |-> <<>>, methods |-> <<>>, examples |-> <<>>,
     relatedApis |-> <<>>, deprecationInfo |-> {}]

\* the orders in which readdirSync can list the entry files
DirListings(S) ==
    {l \in [1..Cardinality(S) -> S] : \A i, j \in DOMAIN l : i # j => l[i] # l[j]}

\* the prompts of the model and what apiMapper.expandApiSearch answers for
\* each: three seeds of which the second is unknown to the site, more
\* seeds than are resolved, no seed at all, and one seed that another
\* prompt has too
Prompts == {"show Foo and Bar", "everything about nothing", "", "just Foo"}

\* what enhancePromptWithIntelligentRAG is called with, as (prompt,
\* codeContext): each prompt without a code context; a prompt with a code
\* context after its first 24 characters; and a prompt that goes on after
\* the 24 characters of another
Asks ==
    {<<prompt, "">> : prompt \in Prompts} \cup
    {<<"everything about nothing", "let x = 1">>,
     <<"everything about nothing but Foo", "">>}

expandApiSearch(prompt) ==
    IF prompt = "show Foo and Bar" THEN <<"Foo", "Nope", "Bar">>
    ELSE IF prompt \in {"just Foo", "everything about nothing but Foo"} THEN <<"Foo">>
    ELSE IF prompt = "everything about nothing"
    THEN [i \in 1..(SeedLimit + 1) |-> IF i <= SeedLimit THEN "Nope" ELSE "Foo"]
    ELSE <<>>

\* two calls of scrapeApiInDepth can be under way at a time
FlowIds == {1, 2}

\* no call under way
Idle == [pc |-> "idle", apiName |-> "", framework |-> "", results |-> <<>>,
         links |-> <<>>, i |-> 0, pending |-> <<>>]

Init ==
    /\ files = EmptyMap
    /\ meta = {}
    /\ mem = EmptyMap
    /\ now = 0
    /\ contextCache = EmptyMap
    /\ nLinks \in LinkCounts
    /\ steps = 0
    /\ faultsLeft = MaxFaults
    /\ last = [op |-> "init"]
    /\ getsSince = EmptyMap
    /\ flows = [id \in FlowIds |-> Idle]

\* time passes
Tick ==
    /\ now < MaxTime
    /\ now' = now + 1
    /\ UNCHANGED <<files, meta, mem, contextCache, nLinks, steps, faultsLeft, last,
                   getsSince, flows>>

\* cacheManager.cacheApi(apiData)
Put ==
    /\ steps < MaxCacheOps
    /\ \E key \in PutKeys :
          Done("put", key[1], key[2],
               Ret(cacheApi(IO0, ApiData(key[1], key[2], "An overview"), NoFaults),
                   TRUE, Null, FALSE))
    /\ UNCHANGED <<now, contextCache, nLinks, faultsLeft>>

\* cacheManager.getCachedApi(apiName, framework)
Get ==
    /\ steps < MaxCacheOps
    /\ \E key \in GetKeys :
          Done("get", key[1], key[2],
               getCachedApi(IO0, key[1], key[2], NoFaults) @@ [thrown |-> FALSE])
    /\ UNCHANGED <<now, contextCache, nLinks, faultsLeft>>

\* cacheManager.cleanupCache()
Cleanup ==
    /\ steps < MaxCacheOps
    /\ \E apiFiles \in DirListings(DOMAIN files) :
          Done("cleanup", "", "",
               cleanupCache(IO0, apiFiles, NoFaults) @@ [found |-> TRUE, thrown |-> FALSE])
    /\ UNCHANGED <<now, contextCache, nLinks, faultsLeft>>

\* cacheManager.clearCache()
Clear ==
    /\ steps < MaxCacheOps
    /\ Done("clear", "", "", Ret(clearCache(IO0, NoFaults), TRUE, Null, FALSE))
    /\ UNCHANGED <<now, contextCache, nLinks, faultsLeft>>

\* cacheManager.resetAllCacheData()
ResetAll ==
    /\ steps < MaxCacheOps
    /\ Done("reset", "", "", Ret(resetAllCacheData(IO0, NoFaults), TRUE, Null, FALSE))
    /\ UNCHANGED <<now, contextCache, nLinks, faultsLeft>>

\* the terms the cache is searched for: one that the name of "Foo" holds
\* and "Bar" holds in its description only, in another case than the
\* entries spell it; one that runs from a name into the description; one
\* that a name holds whole
SearchTerms == {"O", "foo an", "Bar"}

\* cacheManager.cacheApi(apiData), the write of the entry file throwing
\* or not
StorePut ==
    /\ steps < MaxCacheOps
    /\ \E key \in StoreKeys, stFailAt \in AtMost({1}, faultsLeft) :
          LET then(r) == /\ Done("put", key[1], key[2], Ret(r, TRUE, Null, FALSE))
                         /\ faultsLeft' = faultsLeft - r.faults
          IN  then(cacheApi(IO0, ApiData(key[1], key[2], "An overview"),
                            Env({}, stFailAt)))
    /\ UNCHANGED <<now, contextCache, nLinks>>

\* cacheManager.getCachedApi(apiName, framework), the read of the entry
\* file throwing or not
StoreGet ==
    /\ steps < MaxCacheOps
    /\ \E key \in StoreKeys, stFailAt \in AtMost({1}, faultsLeft) :
          LET then(r) == /\ Done("get", key[1], key[2], r @@ [thrown |-> FALSE])
                         /\ faultsLeft' = faultsLeft - r.io.faults
          IN  then(getCachedApi(IO0, key[1], key[2], Env({}, stFailAt)))
    /\ UNCHANGED <<now, contextCache, nLinks>>

\* cacheManager.cleanupCache(), one of its unlinkSync calls throwing or
\* none
StoreCleanup ==
    /\ steps < MaxCacheOps
    /\ \E apiFiles \in DirListings(DOMAIN files),
          stFailAt \in AtMost(1..Cardinality(DOMAIN files), faultsLeft) :
          LET then(r) == /\ Done("cleanup", "", "",
                                 r @@ [found |-> TRUE, thrown |-> FALSE])
                         /\ faultsLeft' = faultsLeft - r.io.faults
          IN  then(cleanupCache(IO0, apiFiles, Env({}, stFailAt)))
    /\ UNCHANGED <<now, contextCache, nLinks>>

\* getCachedApi(apiName, framework) of the manager with a time to live
GetTtl ==
    /\ steps < MaxCacheOps
    /\ \E key \in GetKeys :
          Done("get", key[1], key[2],
               getCachedApiTtl(IO0, key[1], key[2], NoFaults) @@ [thrown |-> FALSE])
    /\ UNCHANGED <<now, contextCache, nLinks, faultsLeft>>

\* time passes: the seven days an entry lives, once, or a millisecond,
\* MaxTime times before those days and MaxTime times after them
PassTime ==
    /\ \E d \in {1, MAX_CACHE_AGE_DAYS * 24 * 60 * 60 * 1000} :
          /\ d = 1 => now % (MAX_CACHE_AGE_DAYS * 24 * 60 * 60 * 1000) < MaxTime
          /\ d > 1 => now <= MaxTime
          /\ now' = now + d
    /\ UNCHANGED <<files, meta, mem, contextCache, nLinks, steps, faultsLeft, last,
                   getsSince, flows>>

\* cacheManager.searchCachedApis(searchTerm, framework?)
Search ==
    /\ steps < MaxCacheOps
    /\ \E searchTerm \in SearchTerms, framework \in {"", "UIKit"},
          apiFiles \in DirListings(DOMAIN files) :
          Done("search", searchTerm, framework,
               searchCachedApis(IO0, apiFiles, searchTerm, framework, NoFaults)
                   @@ [found |-> TRUE, thrown |-> FALSE])
    /\ UNCHANGED <<now, contextCache, nLinks, faultsLeft>>

\* cacheManager.getCacheStats()
Stats ==
    /\ steps < MaxCacheOps
    /\ \E apiFiles \in DirListings(DOMAIN files) :
          Done("stats", "", "",
               getCacheStats(IO0, apiFiles, NoFaults)
                   @@ [found |-> TRUE, thrown |-> FALSE])
    /\ UNCHANGED <<now, contextCache, nLinks, faultsLeft>>

\* deepScraper.scrapeApiInDepth(apiName, framework?)
Resolve ==
    /\ steps < MaxSteps
    /\ \E apiName \in ApiNames, framework \in {"", "UIKit"} :
       \E fault \in Faults(ResolveRequests(apiName),
                            ResolveCacheCalls(apiName, framework)) :
          /\ Done("resolve", apiName, framework,
                  scrapeApiInDepth(IO0, apiName, framework, Env(fault[1], fault[2])))
          /\ faultsLeft' = faultsLeft - Cardinality(fault[1]) - Cardinality(fault[2])
    /\ UNCHANGED <<now, contextCache, nLinks>>

\* contextProvider.enhancePromptWithIntelligentRAG(prompt, codeContext?)
ResolveAll ==
    /\ steps < MaxSteps
    /\ \E ask \in Asks :
       \E fault \in Faults(SeedRequests(Slice0(expandApiSearch(ask[1]), SeedLimit)),
                            SeedCacheCalls(Slice0(expandApiSearch(ask[1]), SeedLimit))) :
          LET finished(r) ==
                  /\ Commit(r.io)
                  /\ last' = Last("resolveAll", ask[1], "", r) @@
                                 [codeContext |-> ask[2]]
                  /\ contextCache' = r.ctx
          IN  /\ finished(enhancePromptWithIntelligentRAG(
                              IO0, contextCache, ask[1], ask[2],
                              expandApiSearch(ask[1]), Env(fault[1], fault[2])))
              /\ faultsLeft' = faultsLeft - Cardinality(fault[1]) - Cardinality(fault[2])
    /\ UNCHANGED <<now, nLinks>>

\* contextProvider.clearCache()
ClearContext ==
    /\ steps < MaxSteps
    /\ contextCache # EmptyMap
    /\ contextCache' = EmptyMap
    /\ steps' = steps + 1
    /\ last' = Last("clearContext", "", "", Ret(IO0, TRUE, Null, FALSE))
    /\ UNCHANGED <<files, meta, mem, now, nLinks, faultsLeft, getsSince, flows>>

\* the resolver and the reset of the durable cache
Next == Resolve \/ Clear

Spec == Init /\ [][Next]_vars

\* the cache manager alone
InitCache == Init /\ nLinks = 0

NextCache == Put \/ Get \/ Cleanup \/ Clear \/ ResetAll \/ Search \/ Stats \/ Tick

SpecCache == InitCache /\ [][NextCache]_vars

\* an entry file stops being readable: it is truncated, or its
\* permissions change
Damage ==
    /\ \E p \in DOMAIN files :
          /\ ~IsUnreadable(files[p])
          /\ files' = [files EXCEPT ![p] = Unreadable]
    /\ last' = [op |-> "damage", log |-> <<>>]
    /\ UNCHANGED <<meta, mem, now, contextCache, nLinks, steps, faultsLeft,
                   getsSince, flows>>

\* the cache manager over a directory in which entry files can be
\* unreadable
NextDamaged == Put \/ Damage \/ Search \/ Stats \/ Cleanup

SpecDamaged == InitCache /\ [][NextDamaged]_vars

----------------------------------------------------------------------------
(* scrapeApiInDepth(apiName, framework) as the event loop runs it: a call  *)
(* runs until it awaits, another call can run before it is resumed.  The   *)
(* file accesses of the cache manager are synchronous, so each call of     *)
(* getCachedApi or cacheApi falls into one piece; a request is answered    *)
(* in the piece that resumes the call.  scrapeApiPage looks into the page  *)
(* map before it awaits its request and sets the map in the piece that     *)
(* the response resumes.                                                   *)

\* whether getCachedApi awaits between its read of the entry file and its
\* write: all its file accesses are synchronous
getCachedApiSuspends_afterRead == TRUE

getCachedApiSuspends == FALSE

\* the call enters a loop over links, or returns when there is none
Enter(f, pc, links, results) ==
    IF links = <<>> THEN Idle
    ELSE [f EXCEPT !.pc = pc, !.links = links, !.i = 1, !.results = results,
                   !.pending = <<>>]

\* the loop goes on to its next link, or the call returns
Advance(f, pc, results) ==
    IF f.i < Len(f.links)
    THEN [f EXCEPT !.pc = pc, !.i = @ + 1, !.results = results, !.pending = <<>>]
    ELSE Idle

\* the piece of scrapeApiInDepth that the call f runs next, from where it
\* is suspended to its next await
FlowStep(f, io, env) ==
    LET fw == f.framework
        filePath == getCacheFilePath(f.apiName, fw)
        href == CHOOSE h \in SearchFirstHref(f.apiName) : TRUE
        pageUrl == IF startsWith(href, "http") THEN href ELSE baseUrl \o href
        \* Step 1: a hit goes on to searchRelatedInCache, a miss to the network
        lookedUp(c) ==
            [io |-> c.io,
             f  |-> IF c.found
                    THEN Enter(f, "cached",
                               Slice0(c.ret.relatedApis, CachedRelatedLimit), <<c.ret>>)
                    ELSE [f EXCEPT !.pc = "search"]]
        written(cachedData) ==
            lookedUp(Ret([io EXCEPT
                             !.files = [p \in DOMAIN @ \cup {filePath} |->
                                           IF p = filePath THEN cachedData ELSE @[p]],
                             !.log = Append(@, Event("get", filePath, TRUE))],
                         TRUE, convertCachedToDeepDoc(cachedData), FALSE))
        cachedGot(c) ==
            [io |-> c.io,
             f  |-> Advance(f, "cached",
                            IF c.found THEN Append(f.results, c.ret) ELSE f.results)]
        \* Step 2: findMainApiPage
        paged(m) ==
            [io |-> m.io,
             f  |-> IF ~m.found THEN Idle
                    ELSE [f EXCEPT !.pc = "store", !.results = <<m.ret>>]]
        \* scrapeApiPage(fullUrl): a page that is in the map is returned,
        \* for one that is not the request is awaited
        searched(g) ==
            IF g.thrown \/ SearchFirstHref(f.apiName) = {} THEN [io |-> g.io, f |-> Idle]
            ELSE IF pageUrl \in DOMAIN g.io.mem
            THEN paged(Ret(g.io, TRUE, g.io.mem[pageUrl], FALSE))
            ELSE [io |-> g.io, f |-> [f EXCEPT !.pc = "page"]]
        stored(put) == [io |-> put.io, f |-> [f EXCEPT !.pc = "discover"]]
        \* Steps 3 and 4
        discovered(r) ==
            [io |-> r.io,
             f  |-> Enter(f, "relGet", Slice0(r.ret, RelatedLimit), f.results)]
        relPaged(m) ==
            [io |-> m.io,
             f  |-> IF ~m.found THEN Advance(f, "relGet", f.results)
                    ELSE [f EXCEPT !.pc = "relStore", !.pending = <<m.ret>>]]
        relGot(c) ==
            IF c.found
            THEN [io |-> c.io, f |-> Advance(f, "relGet", Append(f.results, c.ret))]
            ELSE IF f.links[f.i] \in DOMAIN c.io.mem
            THEN relPaged(Ret(c.io, TRUE, c.io.mem[f.links[f.i]], FALSE))
            ELSE [io |-> c.io, f |-> [f EXCEPT !.pc = "relPage"]]
        relStored(put) ==
            [io |-> put.io,
             f  |-> Advance(f, "relGet", Append(f.results, f.pending[1]))]
    IN  CASE f.pc = "lookup" ->
                IF getCachedApiSuspends /\ filePath \in DOMAIN io.files
                THEN [io |-> io,
                      f  |-> [f EXCEPT !.pc = "lookupWrite",
                                       !.pending = <<io.files[filePath]>>]]
                ELSE lookedUp(getCachedResult(io, f.apiName, fw, env))
          [] f.pc = "lookupWrite" ->
                written([f.pending[1] EXCEPT !.lastAccessed = env.t,
                                             !.accessCount = @ + 1])
          [] f.pc = "cached" ->
                cachedGot(getCachedResult(io, f.links[f.i], fw, env))
          [] f.pc = "search" ->
                searched(axiosGet(io,
                                  baseUrl \o "/search/?q=" \o
                                      encodeURIComponent(f.apiName) \o
                                      "&framework=" \o toLowerCase(fw),
                                  TRUE, env))
          [] f.pc = "page" ->
                paged(Caught(scrapeApiPage_try(io, pageUrl, env), FALSE, Null))
          [] f.pc = "store" -> stored(cacheResult(io, f.results[1], env))
          [] f.pc = "discover" ->
                discovered(scrapeRelatedApis(io, f.results[1].url, env))
          [] f.pc = "relGet" ->
                relGot(getCachedResult(io, f.links[f.i], fw, env))
          [] f.pc = "relPage" ->
                relPaged(Caught(scrapeApiPage_try(io, f.links[f.i], env), FALSE, Null))
          [] f.pc = "relStore" -> relStored(cacheResult(io, f.pending[1], env))

\* a piece was run for the call in slot id, which was at f
Ran(id, f, r) ==
    /\ Effect(r.io)
    /\ flows' = [flows EXCEPT ![id] = r.f]
    /\ last' = [op |-> "piece", id |-> id, pc |-> f.pc, apiName |-> f.apiName,
                framework |-> f.framework, log |-> r.io.log,
                returned |-> r.f.pc = "idle"]

\* scrapeApiInDepth(apiName, framework) is called while at most one other
\* call is under way: it runs up to its first await, the cache lookup
\* included
StartFlow ==
    /\ steps < MaxFlows
    /\ \E id \in FlowIds, apiName \in {"Foo", "Bar"} :
          /\ flows[id].pc = "idle"
          /\ LET then(f) == Ran(id, f, FlowStep(f, IO0, NoFaults))
             IN  then([Idle EXCEPT !.pc = "lookup", !.apiName = apiName,
                                   !.framework = "UIKit"])
    /\ steps' = steps + 1
    /\ UNCHANGED <<now, contextCache, nLinks, faultsLeft>>

\* a call that is suspended is resumed and runs up to its next await
ResumeFlow ==
    /\ \E id \in FlowIds :
          /\ flows[id].pc # "idle"
          /\ Ran(id, flows[id], FlowStep(flows[id], IO0, NoFaults))
    /\ UNCHANGED <<now, contextCache, nLinks, steps, faultsLeft>>

\* DeepDocsScraper.clearCache(): the page map is emptied
ClearPages ==
    /\ mem' = EmptyMap
    /\ last' = [op |-> "clearPages", log |-> <<>>]
    /\ UNCHANGED <<files, meta, now, contextCache, nLinks, steps, faultsLeft,
                   getsSince, flows>>

\* calls of scrapeApiInDepth that overlap, for a "Foo" page with one link
InitFlows == Init /\ nLinks = 1

NextFlows == StartFlow \/ ResumeFlow \/ ClearPages

SpecFlows == InitFlows /\ [][NextFlows]_vars

\* the command apple-docs-rag.clearCache, confirmed: cacheManager.clearCache()
ClearCommand ==
    /\ LET then(io) == /\ Effect(io)
                       /\ last' = Last("clear", "", "", Ret(io, TRUE, Null, FALSE))
       IN  then(clearCache(IO0, NoFaults))
    /\ UNCHANGED <<now, contextCache, nLinks, steps, faultsLeft, flows>>

\* the button "Size Cleanup": cacheManager.cleanupCache()
CleanupCommand ==
    /\ \E apiFiles \in DirListings(DOMAIN files) :
          LET then(r) == /\ Effect(r.io)
                         /\ last' = Last("cleanup", "", "",
                                         r @@ [found |-> TRUE, thrown |-> FALSE])
          IN  then(cleanupCache(IO0, apiFiles, NoFaults))
    /\ UNCHANGED <<now, contextCache, nLinks, steps, faultsLeft, flows>>

\* the cache manager over a storage whose file accesses can throw
NextStorage == StorePut \/ StoreGet \/ StoreCleanup

SpecStorage == InitCache /\ [][NextStorage]_vars

\* the manager with a time to live, over the days its entries live
NextTtl == Put \/ GetTtl \/ PassTime

SpecTtl == InitCache /\ [][NextTtl]_vars

\* the context provider over the resolver, for a "Foo" page without
\* links and for one with three
InitAll == Init /\ nLinks \in {0, 3}

NextAll == ResolveAll \/ ClearContext

SpecAll == InitAll /\ [][NextAll]_vars

\* the context provider, with the commands that empty the durable cache
\* between its calls, for a "Foo" page without links
InitMemo == Init /\ nLinks = 0

NextMemo == ResolveAll \/ ClearContext \/ ClearCommand \/ CleanupCommand

SpecMemo == InitMemo /\ [][NextMemo]_vars

----------------------------------------------------------------------------
(* Properties of the cache manager, under SpecCache.                       *)

\* the step is one call of the operation op
Called(op) == steps' = steps + 1 /\ last'.op = op

\* the file a call named (apiName, framework) reads or writes
PathOf(l) == CacheFilePath(l.apiName, l.framework)

\* C1: a successful get raises the entry's accessCount by exactly 1, sets
\* its lastAccessed to the time of the get and changes no other field, the
\* value returned is the updated entry, and an entry that was put and then
\* read n times has accessCount 1 + n
C1_GetCountsAccess ==
    /\ [](\A p \in DOMAIN files : files[p].accessCount = 1 + getsSince[p])
    /\ [][(Called("get") /\ last'.found) =>
             /\ PathOf(last') \in DOMAIN files
             /\ files' = [files EXCEPT ![PathOf(last')] =
                              [@ EXCEPT !.accessCount = @ + 1, !.lastAccessed = now]]
             /\ last'.ret = files'[PathOf(last')]]_vars

\* an entry read twice after it was put, the second time at a later time
C1_Witness ==
    /\ last.op = "get"
    /\ last.found
    /\ last.ret.accessCount = 3
    /\ last.ret.lastAccessed > last.ret.cachedAt
    /\ getsSince[PathOf(last)] = 2

\* a is at most b in the order (accessCount, lastAccessed)
RankLeq(a, b) ==
    \/ a.accessCount < b.accessCount
    \/ a.accessCount = b.accessCount /\ a.lastAccessed <= b.lastAccessed

\* C2: a cleanup with capacity N over M entries removes exactly
\* max(0, M - N) entries and returns that number; no removed entry ranks
\* above a surviving one in (accessCount, lastAccessed); survivors are
\* left as they were
C2_CleanupEvictsLeastUsed ==
    [][Called("cleanup") =>
         LET removed == DOMAIN files \ DOMAIN files'
             excess  == IF Cardinality(DOMAIN files) > MAX_CACHE_SIZE
                        THEN Cardinality(DOMAIN files) - MAX_CACHE_SIZE ELSE 0
         IN  /\ DOMAIN files' \subseteq DOMAIN files
             /\ Cardinality(removed) = excess
             /\ last'.ret = excess
             /\ \A p \in removed, q \in DOMAIN files' : RankLeq(files[p], files[q])
             /\ \A q \in DOMAIN files' : files'[q] = files[q]]_vars

\* a cleanup removed an entry and kept one that had been read
C2_Witness ==
    /\ last.op = "cleanup"
    /\ last.ret >= 1
    /\ \E q \in DOMAIN files : files[q].accessCount >= 2
    /\ \E i \in DOMAIN last.log : last.log[i].ev = "unlink"

\* C10: whenever metadata is stored, its totalApis is the number of entry
\* files (in particular after a put that overwrites an entry)
C10_TotalApisCountsFiles ==
    \A m \in meta : m.totalApis = Cardinality(DOMAIN files)

----------------------------------------------------------------------------
(* Properties of the resolver, under Spec.                                 *)

\* the positions of the log of l at which a network request was issued
Requests(l) == {i \in DOMAIN l.log : l.log[i].ev = "fetch"}

\* the positions at which an entry was written, or the write attempted
Puts(l) == {i \in DOMAIN l.log : l.log[i].ev = "put"}

\* every request of the call succeeded and no file access failed
Unfailing(l) ==
    /\ l.faults = 0
    /\ \A i \in Requests(l) : l.log[i].ok

\* the call was given a framework and its lookup of the primary
\* identifier, the first thing it does, was a hit
PrimaryHit(l) ==
    /\ l.op = "resolve"
    /\ l.framework # ""
    /\ l.log[1] = Event("get", PathOf(l), TRUE)

\* C3: a resolve with a framework whose primary identifier is a cache hit
\* issues no network request and writes no entry, whether or not the
\* entry's related identifiers are in the cache, and returns cached records
C3_HitStaysOffNetwork ==
    PrimaryHit(last) =>
        /\ last.req = 0
        /\ Requests(last) = {}
        /\ Puts(last) = {}
        /\ ~last.thrown
        /\ Len(last.ret) >= 1
        /\ \A i \in DOMAIN last.ret : last.ret[i].fromCache

\* a hit whose entry names related identifiers, all of them looked up and
\* missed
C3_Witness ==
    /\ PrimaryHit(last)
    /\ Len(last.ret) = 1
    /\ Len(last.ret[1].relatedApis) >= 3
    /\ \E i \in DOMAIN last.log : last.log[i].ev = "get" /\ ~last.log[i].ok

\* the call returned a record it fetched for the primary identifier, and
\* the write of that record, the first write of the call, succeeded
FetchedAndCachedPrimary(l) ==
    /\ l.op = "resolve"
    /\ l.ret # <<>>
    /\ ~l.ret[1].fromCache
    /\ Puts(l) # {}
    /\ l.log[Min(Puts(l))].ok

\* the step is a resolve with the arguments of the resolve before it
ResolvedAgain ==
    /\ Called("resolve")
    /\ last.op = "resolve"
    /\ last'.apiName = last.apiName
    /\ last'.framework = last.framework

\* C4: when resolve(id, fw) is repeated at once and the first call fetched
\* and cached the primary page, the second call issues no network request
\* (stated for a second call that meets no failure)
C4_SecondCallOffNetwork ==
    [][(ResolvedAgain /\ last.framework # "" /\ FetchedAndCachedPrimary(last)
            /\ last'.faults = 0)
          => last'.req = 0]_vars

\* the keys of the records of a result
RecordKeys(ret) == {<<ret[i].framework, ret[i].title>> : i \in DOMAIN ret}

\* C5: when resolve(id, fw) is repeated at once, the keys of the records
\* of the second call include those of the first (stated for calls that
\* meet no failure)
C5_SecondCallCoversFirst ==
    [][(ResolvedAgain /\ last.framework # "" /\ Unfailing(last)
            /\ last'.faults = 0 /\ \A i \in Requests(last') : last'.log[i].ok)
          => RecordKeys(last.ret) \subseteq RecordKeys(last'.ret)]_vars

\* C6: no resolve issues more than 11 network requests, whatever the
\* pages hold and whichever requests fail
C6_AtMostElevenRequests ==
    last.op = "resolve" =>
        /\ last.req <= 11
        /\ Cardinality(Requests(last)) = last.req

\* a resolve of a page with more links than are followed: the search, the
\* page, the link discovery and one request for each link followed, one of
\* which failed
C6_Witness ==
    /\ last.op = "resolve"
    /\ nLinks > DiscoveryLimit
    /\ last.req = 3 + DiscoveryLimit
    /\ \E i \in Requests(last) : ~last.log[i].ok

\* the distinct documentation links of the page the search finds for apiName
LinksExposed(apiName) ==
    Dedupe(DocLinks(PageAt(CHOOSE u \in SiteUrls :
                               \E h \in SearchFirstHref(apiName) :
                                   u = h \/ u = baseUrl \o h,
                           nLinks).hrefs))

\* C7: from an empty cache, a resolve(id, fw) whose primary page exposes
\* k <= 10 distinct related links and whose requests all succeed issues
\* exactly 1 + k requests and leaves exactly 1 + k entries, all of
\* framework fw
C7_OnePlusK ==
    (/\ steps = 1
     /\ last.op = "resolve"
     /\ last.framework # ""
     /\ SearchFirstHref(last.apiName) # {}
     /\ Len(LinksExposed(last.apiName)) <= 10
     /\ Unfailing(last))
    => /\ last.req = 1 + Len(LinksExposed(last.apiName))
       /\ Cardinality(DOMAIN files) = 1 + Len(LinksExposed(last.apiName))
       /\ \A p \in DOMAIN files : files[p].framework = last.framework

\* a request of the call failed before the call tried to write any entry:
\* the search or the fetch of the primary page failed
PrimaryFetchFailed(l) ==
    \E i \in Requests(l) :
        /\ ~l.log[i].ok
        /\ \A j \in Puts(l) : j > i

\* C8: resolve returns a list and does not raise, whichever requests and
\* file accesses fail; when the fetch of the primary page fails the list
\* is empty and no entry is written
C8_AlwaysReturnsList ==
    last.op = "resolve" =>
        /\ ~last.thrown
        /\ last.found
        /\ PrimaryFetchFailed(last) =>
              /\ last.ret = <<>>
              /\ Puts(last) = {}

\* the search succeeded and the fetch of the page it found failed
C8_Witness ==
    /\ last.op = "resolve"
    /\ last.req = 2
    /\ last.log[Min(Requests(last))].ok
    /\ PrimaryFetchFailed(last)
    /\ last.ret = <<>>

----------------------------------------------------------------------------
(* Properties of the loop over the seeds, under SpecAll.                   *)

\* the positions of the log of l at which the resolution of a seed began,
\* in order
SeedStarts(l) ==
    SelectSeq([i \in DOMAIN l.log |-> i], LAMBDA i : l.log[i].ev = "seed")

\* the positions of the log that belong to the k-th seed
Segment(l, k) ==
    (SeedStarts(l)[k] + 1) ..
        (IF k < Len(SeedStarts(l)) THEN SeedStarts(l)[k + 1] - 1 ELSE Len(l.log))

\* how many records the k-th seed added to the output: empty when the loop
\* did not get to add any
Pushed(l, k) == {l.log[j].n : j \in {i \in Segment(l, k) : l.log[i].ev = "push"}}

\* the search or the fetch of the primary page of the k-th seed failed
SeedFailed(l, k) ==
    \E i \in Segment(l, k) :
        /\ l.log[i].ev = "fetch"
        /\ ~l.log[i].ok
        /\ \A j \in Segment(l, k) : l.log[j].ev = "put" => j > i

\* the records the seeds before the k-th added
RECURSIVE PushedBefore(_, _)
PushedBefore(l, k) ==
    IF k = 1 THEN 0
    ELSE PushedBefore(l, k - 1) + (CHOOSE n \in Pushed(l, k - 1) : TRUE)

\* the page the search finds for a seed the site knows
PrimaryUrl(apiName) ==
    CHOOSE u \in SiteUrls : \E h \in SearchFirstHref(apiName) : u = h \/ u = baseUrl \o h

----------------------------------------------------------------------------
(* Further properties of the cache manager, under SpecCache.               *)

\* the framework names of the entries present
FrameworksPresent == {files[p].framework : p \in DOMAIN files}

\* C11: what getCacheStats reports is derived from the entries present:
\* its total count is the number of entries, and its framework list holds
\* exactly the distinct framework names of the entries
C11_StatsFromEntries ==
    last.op = "stats" =>
        /\ last.ret.totalApis = Cardinality(DOMAIN files)
        /\ Range(last.ret.frameworks) = FrameworksPresent

C13_PutGetKeepEntries ==
    [][/\ (Called("put") \/ Called("get") \/ now' # now) =>
              DOMAIN files \subseteq DOMAIN files'
       /\ (Called("get") /\ PathOf(last') \in DOMAIN files) =>
              /\ last'.found
              /\ last'.ret.apiName = files[PathOf(last')].apiName
              /\ last'.ret.cachedAt = files[PathOf(last')].cachedAt]_vars

\* a get found an entry put at an earlier time, another entry having been
\* put after it
C13_Witness ==
    /\ last.op = "get"
    /\ last.found
    /\ last.t > last.ret.cachedAt
    /\ \E q \in DOMAIN files : files[q].cachedAt > last.ret.cachedAt

\* the term of the search l, in lower case
TermOf(l) == toLowerCase(l.apiName)

\* one of the fields of the entry holds the term
FieldHolds(e, term) ==
    \/ includes(toLowerCase(e.apiName), term)
    \/ includes(toLowerCase(e.documentation), term)
    \/ \E i \in DOMAIN e.methods : includes(toLowerCase(e.methods[i]), term)
    \/ \E i \in DOMAIN e.properties : includes(toLowerCase(e.properties[i]), term)

\* the name of the entry holds the term
NameHolds(e, term) == includes(toLowerCase(e.apiName), term)

\* the results are at most SearchLimit, have the framework asked for, and
\* are ordered: name matches first, descending accessCount among equals
RankedResults(l) ==
    /\ Len(l.ret) <= SearchLimit
    /\ \A i \in DOMAIN l.ret :
           /\ l.ret[i] \in {files[p] : p \in DOMAIN files}
           /\ l.framework # "" => l.ret[i].framework = l.framework
    /\ \A i, j \in DOMAIN l.ret :
           i < j =>
              /\ NameHolds(l.ret[j], TermOf(l)) => NameHolds(l.ret[i], TermOf(l))
              /\ (NameHolds(l.ret[i], TermOf(l)) <=> NameHolds(l.ret[j], TermOf(l)))
                     => l.ret[i].accessCount >= l.ret[j].accessCount

C17_AtMostMaxCacheSize ==
    Cardinality(DOMAIN files) <= MAX_CACHE_SIZE

\* C19: a put of a key that has no entry sets cachedAt and lastAccessed to
\* the time of the put and accessCount to 1; a put of a key that has one
\* replaces its content and leaves its accessCount and its cachedAt as
\* they were
C19_OverwriteKeepsCounters ==
    [][Called("put") =>
         /\ PathOf(last') \in DOMAIN files'
         /\ files'[PathOf(last')].apiName = last'.apiName
         /\ IF PathOf(last') \in DOMAIN files
            THEN /\ files'[PathOf(last')].accessCount = files[PathOf(last')].accessCount
                 /\ files'[PathOf(last')].cachedAt = files[PathOf(last')].cachedAt
            ELSE /\ files'[PathOf(last')].accessCount = 1
                 /\ files'[PathOf(last')].cachedAt = now
                 /\ files'[PathOf(last')].lastAccessed = now]_vars

\* C20: every entry has accessCount >= 1 and lastAccessed >= cachedAt
C20_EntryCountersInOrder ==
    \A p \in DOMAIN files :
        /\ files[p].accessCount >= 1
        /\ files[p].lastAccessed >= files[p].cachedAt

\* a cleanup evicted an entry and left one that was put, and read at a
\* later time
C20_Witness ==
    /\ last.op = "cleanup"
    /\ last.ret >= 1
    /\ \E p \in DOMAIN files :
           /\ files[p].accessCount >= 2
           /\ files[p].lastAccessed > files[p].cachedAt

\* the two texts differ in letter case at most
SameUpToCase(a, b) == toLowerCase(a) = toLowerCase(b)

\* C23: a get that hits returns an entry whose identifier and framework are
\* the requested ones up to letter case, and a put leaves the entry of
\* every other (identifier, framework) pair as it was
C23_KeysUniquePerPair ==
    [][/\ (Called("get") /\ last'.found) =>
             /\ SameUpToCase(last'.ret.apiName, last'.apiName)
             /\ SameUpToCase(last'.ret.framework, last'.framework)
       /\ Called("put") =>
             \A p \in DOMAIN files :
                 \/ /\ SameUpToCase(files[p].apiName, last'.apiName)
                    /\ SameUpToCase(files[p].framework, last'.framework)
                 \/ /\ p \in DOMAIN files'
                    /\ files'[p].apiName = files[p].apiName
                    /\ files'[p].framework = files[p].framework]_vars

\* the call wrote or read an entry file and the access threw
AccessThrew(l, ev) ==
    /\ l.faults > 0
    /\ \E i \in DOMAIN l.log : l.log[i].ev = ev /\ ~l.log[i].ok

\* C27: a put whose write of the entry file throws leaves the entries and
\* the metadata as they were and does not raise; a get whose read of the
\* entry file throws reports the entry as not found and does not raise
C27_FailedAccessAbsorbed ==
    [][/\ (Called("put") /\ AccessThrew(last', "put")) =>
             /\ files' = files
             /\ meta' = meta
             /\ ~last'.thrown
       /\ (Called("get") /\ AccessThrew(last', "get")) =>
             /\ ~last'.found
             /\ ~last'.thrown]_vars

\* a put over an entry that is there has failed
C27_Witness ==
    /\ last.op = "put"
    /\ AccessThrew(last, "put")
    /\ PathOf(last) \in DOMAIN files
    /\ meta # {}

\* C28: what cleanupCache returns is the number of entry files it
\* deleted, and totalApis goes down by that number
C28_CleanupCountsDeletions ==
    [][Called("cleanup") =>
          LET deleted == Cardinality(DOMAIN files \ DOMAIN files')
          IN  /\ last'.ret = deleted
              /\ \A m \in meta : \E m2 \in meta' :
                     m2.totalApis = m.totalApis - deleted]_vars

\* C30: in the manager with a time to live, a get of an entry that was
\* cached more than 7 days ago deletes the entry and reports it as not
\* found; a get of an entry that is no older returns it with the access
\* counted and the time of the access recorded
C30_ExpiredEntryNeverReturned ==
    [][(Called("get") /\ PathOf(last') \in DOMAIN files) =>
          LET p       == PathOf(last')
              age     == now - files[p].cachedAt
              sevenDays == 7 * 86400000
          IN  IF age > sevenDays
              THEN /\ ~last'.found
                   /\ p \notin DOMAIN files'
              ELSE /\ last'.found
                   /\ last'.ret = files'[p]
                   /\ last'.ret = [files[p] EXCEPT !.accessCount = @ + 1,
                                                    !.lastAccessed = now]]_vars

\* a get has deleted an entry that was a millisecond over seven days old
C30_Witness ==
    /\ last.op = "get"
    /\ ~last.found
    /\ last.t = 7 * 86400000 + 1
    /\ last.log[1] = Event("unlink", PathOf(last), TRUE)
    /\ PathOf(last) \notin DOMAIN files

----------------------------------------------------------------------------
(* Further properties of the resolver, under Spec.                         *)

\* the positions of the log of l at which a documentation page was
\* requested and answered
PageRequests(l) ==
    {i \in Requests(l) : l.log[i].ok /\ includes(l.log[i].what, DocSegment)}

\* C14: over resolutions that follow one another with no reset between
\* them, no documentation page is requested again once it was answered:
\* not within one resolution, and not in the one that follows it
C14_NoPageRequestedTwice ==
    [][Called("resolve") =>
         /\ \A i, j \in PageRequests(last') :
                i # j => last'.log[i].what # last'.log[j].what
         /\ last.op = "resolve" =>
                \A i \in PageRequests(last), j \in PageRequests(last') :
                   last.log[i].what # last'.log[j].what]_vars

\* no value occurs twice in the list
NoDuplicate(list) == \A i, j \in DOMAIN list : i # j => list[i] # list[j]

\* where the value first occurs in the list
FirstAt(list, x) == Min({i \in DOMAIN list : list[i] = x})

\* the list holds the first values of the links, each once, in the order
\* in which the links first show them, as many as there are up to 10
FirstDistinct(list, links) ==
    /\ NoDuplicate(list)
    /\ Range(list) \subseteq Range(links)
    /\ Len(list) = IF Cardinality(Range(links)) < 10
                   THEN Cardinality(Range(links)) ELSE 10
    /\ \A i, j \in DOMAIN list :
           i < j => FirstAt(links, list[i]) < FirstAt(links, list[j])
    /\ \A x \in Range(links) \ Range(list), i \in DOMAIN list :
           FirstAt(links, list[i]) < FirstAt(links, x)

\* the documentation links of the page at url, as the page lists them
LinksAt(url, n) ==
    LET hrefs == PageAt(url, n).hrefs
    IN  [i \in 1..Cardinality({j \in DOMAIN hrefs : includes(hrefs[j], DocSegment)}) |->
            LET at == CHOOSE j \in DOMAIN hrefs :
                        /\ includes(hrefs[j], DocSegment)
                        /\ Cardinality({k \in 1..j : includes(hrefs[k], DocSegment)}) = i
            IN  IF startsWith(hrefs[at], "http") THEN hrefs[at]
                ELSE baseUrl \o hrefs[at]]

\* computed once for the pages of the site
AllLinks == [key \in SiteUrls \X LinkCounts |-> LinksAt(key[1], key[2])] @@ EmptyMap

LinksOf(url) == AllLinks[<<url, nLinks>>]

\* C18: the related list of every record read off a page, and of every
\* entry of the cache, holds no value twice and at most 10 values, in the
\* order in which the page first shows them
C18_RelatedListDistinct ==
    /\ \A url \in DOMAIN mem : FirstDistinct(mem[url].relatedApis, LinksOf(url))
    /\ \A p \in DOMAIN files :
           /\ NoDuplicate(files[p].relatedApis)
           /\ Len(files[p].relatedApis) <= 10
           /\ \E url \in DOMAIN mem : files[p].relatedApis = mem[url].relatedApis
    /\ (last.op = "resolve" /\ ~last.thrown) =>
           \A i \in DOMAIN last.ret :
              /\ NoDuplicate(last.ret[i].relatedApis)
              /\ Len(last.ret[i].relatedApis) <= 10

\* the page of "Foo" was read and stored with 10 related links, the page
\* showing more than 10 distinct links and one of them twice
C18_Witness ==
    /\ U_foo \in DOMAIN mem
    /\ Len(mem[U_foo].relatedApis) = 10
    /\ Cardinality(Range(LinksOf(U_foo))) > 10
    /\ ~NoDuplicate(LinksOf(U_foo))
    /\ \E p \in DOMAIN files :
           files[p].apiName = "Foo" /\ Len(files[p].relatedApis) = 10

\* the stored related identifiers a hit looks up, of the entry at path p
LookedUp(p) == Slice0(files[p].relatedApis, 5)

\* the call l fetched the page at url and wrote its entry
FetchedAndCached(l, url) ==
    /\ l.op = "resolve"
    /\ url \in DOMAIN mem
    /\ \E i \in Requests(l) : l.log[i].ok /\ l.log[i].what = url
    /\ \E j \in Puts(l) :
           /\ l.log[j].ok
           /\ l.log[j].what = CacheFilePath(mem[url].title, mem[url].framework)

\* C21: a resolve with a framework whose primary identifier is a hit
\* returns the primary entry and then, in stored order, the entries of
\* those of its first 5 stored related identifiers that the cache holds
\* under the framework; a related identifier whose page the resolve
\* before it, under the same framework, fetched and cached is among them
\* (stated for a call that meets no file error)
C21_HitReturnsCachedRelated ==
    [][(Called("resolve") /\ PrimaryHit(last') /\ last'.faults = 0) =>
         LET fw      == last'.framework
             names   == LookedUp(PathOf(last'))
             present == SelectSeq(names,
                                  LAMBDA x : CacheFilePath(x, fw) \in DOMAIN files)
         IN  /\ Len(last'.ret) = 1 + Len(present)
             /\ last'.ret[1].title = files[PathOf(last')].apiName
             /\ \A i \in DOMAIN present :
                    last'.ret[1 + i].title = files[CacheFilePath(present[i], fw)].apiName
             /\ \A i \in DOMAIN names :
                    (last.framework = fw /\ FetchedAndCached(last, names[i])) =>
                       \E k \in DOMAIN last'.ret :
                          /\ k > 1
                          /\ last'.ret[k].title = mem[names[i]].title]_vars

\* the page at url answers and yields no title
Untitled(url) == url \in SiteUrls /\ PageAt(url, nLinks).title = ""

\* C22: a resolve does not raise, returns no record for a page that
\* yields no title, and writes no entry for it
C22_UntitledPageUnresolved ==
    last.op = "resolve" =>
        /\ ~last.thrown
        /\ \A url \in {u \in SiteUrls : Untitled(u)} :
               /\ \A i \in DOMAIN last.ret : last.ret[i].url # url
               /\ \A j \in Puts(last) :
                      last.log[j].what #
                          CacheFilePath(ParsedPages[<<url, nLinks>>].title,
                                        ParsedPages[<<url, nLinks>>].framework)

\* the requests of the call for documentation pages, answered or not
DocFetches(l) == {i \in Requests(l) : includes(l.log[i].what, DocSegment)}

\* the page the search finds for apiName and the pages it links
OneHop(apiName) ==
    {PrimaryUrl(apiName)} \cup Range(LinksOf(PrimaryUrl(apiName)))

\* the page the search finds for apiName and the links of it that
\* scrapeRelatedApis reads off it
Followed(apiName) ==
    {PrimaryUrl(apiName)} \cup Range(DiscoveredLinks[<<PrimaryUrl(apiName), nLinks>>])

\* C25: a resolve goes one hop from the primary record and no further.
\* Off the network, it requests and returns the primary page and pages the
\* primary page links (those its link discovery reads), and looks up
\* those links only; on a hit, it looks
\* up the related identifiers of the primary entry only
C25_ExpansionIsOneHop ==
    last.op = "resolve" =>
        LET fw   == last.framework
            gets == {i \in DOMAIN last.log : i > 1 /\ last.log[i].ev = "get"}
            hop  == IF SearchFirstHref(last.apiName) = {} THEN {}
                    ELSE Followed(last.apiName)
            hopPaths == {CacheFilePath(x, fw) : x \in hop}
        IN  IF PrimaryHit(last)
            THEN \A i \in gets :
                    \E x \in Range(files[PathOf(last)].relatedApis) :
                        last.log[i].what = CacheFilePath(x, fw)
            ELSE SearchFirstHref(last.apiName) # {} =>
                    /\ \A i \in DocFetches(last) : last.log[i].what \in hop
                    /\ \A i \in DOMAIN last.ret :
                           last.ret[i].url \in hop \cup {"#cached"}
                    /\ \A i \in gets : last.log[i].what \in hopPaths

\* a related page that links a page of its own was fetched and returned,
\* and the page it links is not among the pages the primary page links
C25_Witness ==
    /\ last.op = "resolve"
    /\ Len(last.ret) >= 2
    /\ ~last.ret[2].fromCache
    /\ \E x \in Range(last.ret[2].relatedApis) : x \notin OneHop(last.apiName)

\* the request by which the call read the links of the primary page: its
\* first request after it wrote, or tried to write, the primary record
Discovery(l) == Min({i \in Requests(l) : i > Min(Puts(l))})

\* the call fetched a primary record and read the links of its page
ReadLinks(l) ==
    /\ l.op = "resolve"
    /\ l.ret # <<>>
    /\ ~l.ret[1].fromCache
    /\ l.log[Discovery(l)].ok

\* the pages the call requested while it went through the links and whose
\* request failed
RelatedFetchesFailed(l) ==
    LET discovery == Discovery(l)
    IN  {l.log[i].what : i \in {j \in Requests(l) : j > discovery /\ ~l.log[j].ok}}

\* the pages the call requested while it went through the links
RelatedFetches(l) ==
    LET discovery == Discovery(l)
    IN  {l.log[i].what : i \in {j \in Requests(l) : j > discovery}}

----------------------------------------------------------------------------
(* Properties of overlapping calls of the resolver, under SpecFlows.       *)

----------------------------------------------------------------------------
(* Further properties of the context provider, under SpecAll.              *)

\* the call built its context from the seeds, rather than return the one
\* it remembered for the prompt
BuiltContext(l) == l.op = "resolveAll" /\ l.log # <<>>

\* the record was served by a hit of the durable cache in the call l
ServedByCacheHit(l, doc) ==
    \E i \in DOMAIN l.log :
        /\ l.log[i].ev = "get"
        /\ l.log[i].ok
        /\ l.log[i].what = CacheFilePath(doc.title, doc.framework)

\* the page of the record was requested, and answered, in the call l
FetchedInCall(l, doc) ==
    \E i \in Requests(l) : l.log[i].ok /\ l.log[i].what = doc.url

SegmentOf(l, starts, k) ==
    (starts[k] + 1) .. (IF k < Len(starts) THEN starts[k + 1] - 1 ELSE Len(l.log))

\* the number of records the k-th seed added, 0 when it added none
PushedIn(l, starts, k) ==
    LET ns == {l.log[i].n : i \in {j \in SegmentOf(l, starts, k) : l.log[j].ev = "push"}}
    IN  IF ns = {} THEN 0 ELSE CHOOSE n \in ns : TRUE

\* the last position of the log that belongs to the k-th seed
SegmentEnd(l, starts, k) ==
    IF k < Len(starts) THEN starts[k + 1] - 1 ELSE Len(l.log)

\* the batch of l took the seeds in turn: starts are the positions of the
\* log at which a seed began, and before[k] the number of records the
\* seeds before the k-th added
SeedsInTurn(l, seeds, starts, before, out) ==
    LET inTurn(k, seed, hop, query) ==
            /\ l.log[starts[k]].what = seed
            /\ \A i \in SegmentOf(l, starts, k) :
                  l.log[i].ev = "fetch" =>
                     (l.log[i].what = query \/ l.log[i].what \in hop)
            /\ l.log[SegmentEnd(l, starts, k)] = Event("delay", seed, TRUE)
            /\ \A j \in (before[k] + 1) .. before[k + 1] : out[j].url \in hop
            /\ before[k + 1] > before[k] => out[before[k] + 1].url = PrimaryUrl(seed)
    IN  /\ Len(starts) = Len(seeds)
        /\ \A k \in DOMAIN seeds :
              inTurn(k, seeds[k], OneHop(seeds[k]),
                     baseUrl \o "/search/?q=" \o encodeURIComponent(seeds[k]))
        /\ Len(out) = before[Len(seeds) + 1]

----------------------------------------------------------------------------
(* Properties of the remembered contexts, under SpecMemo.                  *)

----------------------------------------------------------------------------
(* Properties of the page map, under SpecFlows.                            *)

\* the pages the piece that was just run fetched through scrapeApiPage
PagesFetched(l) ==
    IF l.op = "piece" /\ l.pc \in {"page", "relPage"}
    THEN {l.log[i].what : i \in {j \in DOMAIN l.log : l.log[j].ev = "fetch" /\ l.log[j].ok}}
    ELSE {}

\* C32: between two clears of the page map, scrapeApiPage completes at
\* most one successful request for a page, however the calls under way
\* are interleaved: a page is set in the map when its request succeeds and
\* stays there until the map is cleared, so no request for a page that is
\* in the map succeeds
C32_OneFetchPerPage ==
    [][\A url \in PagesFetched(last') : url \notin DOMAIN mem]_vars


----------------------------------------------------------------------------
(* Properties of the cache manager over unreadable entry files, under      *)
(* SpecDamaged.                                                            *)

\* an entry file of the directory cannot be read
SomeUnreadable == \E p \in DOMAIN files : IsUnreadable(files[p])

\* C34: while an entry file of the directory cannot be read or parsed,
\* whatever the other entries are, searchCachedApis returns [],
\* getCacheStats reports no entry, and cleanupCache deletes no file and
\* returns 0; each of them returns
C34_OneBadFileBlanksAll ==
    [][SomeUnreadable =>
          /\ Called("search") => last'.ret = <<>> /\ ~last'.thrown
          /\ Called("stats") =>
                /\ last'.ret.totalApis = 0
                /\ last'.ret.cacheSize = 0
                /\ ~last'.thrown
          /\ Called("cleanup") =>
                /\ last'.ret = 0
                /\ files' = files
                /\ ~last'.thrown]_vars

\* cleanupCache was called over more entries than it keeps, one of them
\* unreadable
C34_Witness ==
    /\ last.op = "cleanup"
    /\ SomeUnreadable
    /\ \E p \in DOMAIN files : ~IsUnreadable(files[p])
    /\ Cardinality(DOMAIN files) > MAX_CACHE_SIZE
    /\ last.ret = 0


----------------------------------------------------------------------------
(* Properties of the stored metadata, under SpecCache.                     *)

\* C35: with a storage that does not fail, in every state that calls of
\* cacheApi, getCachedApi, cleanupCache and clearCache lead to, the
\* totalApis of the stored metadata is at least the number of entry files,
\* and the framework of every entry file is in the stored framework list;
\* entry files are present only when metadata is stored
C35_MetadataCoversEntries ==
    /\ \A m \in meta :
          /\ m.totalApis >= Cardinality(DOMAIN files)
          /\ \A p \in DOMAIN files : files[p].framework \in Range(m.frameworks)
    /\ meta = {} => files = EmptyMap

\* after puts of which one overwrote an entry, a cleanup deleted an entry
\* and left entries of two frameworks: totalApis is more than the number
\* of entry files
C35_Witness ==
    /\ last.op = "cleanup"
    /\ last.ret >= 1
    /\ files # EmptyMap
    /\ \E m \in meta :
          /\ m.totalApis > Cardinality(DOMAIN files)
          /\ Len(m.frameworks) >= 2


====
